---- MODULE Spec2Model ----
(***************************************************************************)
(* SchemaCache (schema-cache.ts): a file-backed registry of supertag       *)
(* schemas with mtime-based invalidation and inheritance resolution.       *)
(*                                                                         *)
(* The snapshot file is owned by an external sync process.  The cache is   *)
(* synchronous: getSupertag and getAllSupertags run to completion, so each *)
(* is one action.  The sync process acts between calls.                    *)
(*                                                                         *)
(* The web clipper's pure functions work on the schemas the cache hands    *)
(* out: analyzeSupertag and findClipFriendlySupertags                      *)
(* (supertag-analyzer.ts), mapClipToFields (field-mapper.ts),              *)
(* createSmartFieldMapping and applySmartFieldMapping (ai/types.ts).       *)
(* Each has a specification of its own that draws the arguments of one     *)
(* call and applies the function.                                          *)
(*                                                                         *)
(* The clipper's other parts follow: WebClipStorage (storage.ts) over the  *)
(* host's key-value store, buildTanaJSON (capture-tana.tsx), template      *)
(* expressions with their filters, and the clip command's choice of a      *)
(* template.                                                               *)
(***************************************************************************)
EXTENDS Integers, Sequences, FiniteSets, TLC

VARIABLES
    file,       \* the snapshot file: [exists, mtime, content]
    clock,      \* file-system clock; every write stamps the file with it
    cache,      \* SchemaCache.cache: NULL or a Map (name -> CachedSupertag)
    lastMtime,  \* SchemaCache.lastMtime: NULL or the mtime seen at the last load
    lastOp,     \* observation of the most recent call (result, reads, ...)
    prev,       \* observation of some earlier call, kept for comparison
    call,       \* the call under way: arguments of one of the clipper's pure
                \* functions, or how far a refreshIfNeeded call has come
    ret,        \* NULL until that call has returned, then Some(return value)
    storage,    \* the key-value store behind WebClipStorage: per key NULL or
                \* the stored string
    added,      \* the clips handed to addRecentClip since the store was last
                \* cleared, in call order
    command     \* state of the clip command's form: url, matchedTemplate,
                \* selectedTemplateId, useTemplate

vars == <<file, clock, cache, lastMtime, lastOp, prev, call, ret, storage, added, command>>

\* null / undefined, and a present value, for fields that may hold either
NULL == <<>>
Some(x) == <<x>>
Val(o) == o[1]

\* the clipper's store and form take no part in a call of the cache or of a
\* pure function
NoItems == [templates |-> NULL, domainPrefs |-> NULL, recentClips |-> NULL]

NoCommand == [url |-> NULL, matchedTemplate |-> NULL, selectedTemplateId |-> NULL,
              useTemplate |-> TRUE]

StorageIdle ==
    /\ storage = NoItems
    /\ added = <<>>
    /\ command = NoCommand

storeVars == <<storage, added, command>>

(***************************************************************************)
(* Bounds                                                                  *)
(***************************************************************************)
MaxClock == 3          \* number of mtime ticks the sync process may use
MaxEdges == 4          \* total number of extends entries in a generated snapshot
MaxFieldsTotal == 2    \* total number of own fields in a generated snapshot

(***************************************************************************)
(* Snapshot data: CachedField, CachedSupertag, SchemaRegistryFile          *)
(***************************************************************************)
TagIds == {"t1", "t2", "t3", "t4"}

TagName(id) ==
    CASE id = "t1" -> "A"
      [] id = "t2" -> "B"
      [] id = "t3" -> "C"
      [] id = "t4" -> "D"

TagOrder == <<"t1", "t2", "t3", "t4">>

FieldNames == {"X", "Y"}

DataTypeOf(id) ==
    CASE id = "t1" -> "text"
      [] id = "t2" -> "url"
      [] id = "t3" -> "date"
      [] id = "t4" -> "number"

\* CachedField as stored in the file: own field number i of tag id, named n
CachedField(id, i, n) ==
    [attributeId |-> <<id, i>>, name |-> n, dataType |-> DataTypeOf(id)]

\* CachedSupertag as stored in the file
CachedSupertag(id, names, ext) ==
    [id      |-> id,
     name    |-> TagName(id),
     fields  |-> [i \in 1..Len(names) |-> CachedField(id, i, names[i])],
     extends |-> ext]

\* lists of at most two elements of S
ShortLists(S) == {<<>>} \cup {<<x>> : x \in S} \cup {<<x, y>> : x, y \in S}

\* SchemaRegistryFile.supertags for a choice of extends lists and field names
Registry(ext, fl) ==
    [i \in 1..Len(TagOrder) |->
        CachedSupertag(TagOrder[i], fl[TagOrder[i]], ext[TagOrder[i]])]

\* File contents: a well-formed registry, text that JSON.parse rejects,
\* valid JSON without a supertags array, or the prefix of a registry that a
\* write in progress has put on disk so far.
JsonContent(tags) == [kind |-> "json", supertags |-> tags]
GarbageContent    == [kind |-> "garbage", supertags |-> <<>>]
NoArrayContent    == [kind |-> "noarray", supertags |-> <<>>]
PartialContent(tags) == [kind |-> "partial", supertags |-> tags]

Parsable(content) == content.kind = "json"

NoFile == [exists |-> FALSE, mtime |-> 0, content |-> GarbageContent]

(***************************************************************************)
(* The in-memory Map<string, CachedSupertag>: entries in insertion order.  *)
(***************************************************************************)
EmptyMap == <<>>

MapHas(m, k) == \E i \in 1..Len(m) : m[i].key = k

MapIndex(m, k) == CHOOSE i \in 1..Len(m) : m[i].key = k

\* Map.prototype.get: the value, or undefined (NULL)
MapGet(m, k) == IF MapHas(m, k) THEN Some(m[MapIndex(m, k)].value) ELSE NULL

\* Map.prototype.set: replaces the value of an existing key in place
MapSet(m, k, v) ==
    IF MapHas(m, k)
    THEN [m EXCEPT ![MapIndex(m, k)] = [key |-> k, value |-> v]]
    ELSE Append(m, [key |-> k, value |-> v])

\* Array.from(map.values())
MapValues(m) == [i \in 1..Len(m) |-> m[i].value]

(***************************************************************************)
(* loadSchemas                                                             *)
(***************************************************************************)
RECURSIVE BuildMap(_, _)
\* for (const supertag of data.supertags) newCache.set(supertag.name, supertag)
BuildMap(m, tags) ==
    IF tags = <<>> THEN m
    ELSE BuildMap(MapSet(m, Head(tags).name, Head(tags)), Tail(tags))

\* The try block of loadSchemas applied to the file as it is when read:
\* readFileSync throws when the file is gone, JSON.parse throws on malformed
\* text, the for-of loop throws when data.supertags is not iterable.
LoadSchemasTry(read) ==
    IF ~read.exists \/ ~Parsable(read.content)
    THEN [threw |-> TRUE,  cache |-> NULL]
    ELSE [threw |-> FALSE, cache |-> Some(BuildMap(EmptyMap, read.content.supertags))]

LoadSchemasKeepOnError(c, read) ==
    LET t == LoadSchemasTry(read) IN IF t.threw THEN c ELSE t.cache

\* loadSchemas: the new value of this.cache (null after any error)
LoadSchemas(c, read) ==
    LET t == LoadSchemasTry(read) IN IF t.threw THEN NULL ELSE t.cache

(***************************************************************************)
(* refreshIfNeeded                                                         *)
(***************************************************************************)
NeedsLoadCacheOnly(c, lm, currentMtime) == c = NULL
NeedsLoadMtimeOnly(c, lm, currentMtime) == lm # Some(currentMtime)
NeedsLoadAlways(c, lm, currentMtime) == TRUE

\* if (!this.cache || this.lastMtime !== currentMtime)
NeedsLoad(c, lm, currentMtime) == c = NULL \/ lm # Some(currentMtime)

OnMissingKeep(c, lm) == [cache |-> c, lastMtime |-> lm]

\* the existsSync branch: clear cache and lastMtime
OnMissing(c, lm) == [cache |-> NULL, lastMtime |-> NULL]

\* the file is read before its mtime is taken
RefreshIfNeededReadFirst(c, lm, fe, fs, fr) ==
    IF ~fe.exists
    THEN [cache |-> NULL, lastMtime |-> NULL, reads |-> 0, threw |-> FALSE]
    ELSE IF ~fs.exists
    THEN [cache |-> c, lastMtime |-> lm, reads |-> 0, threw |-> FALSE]
    ELSE IF NeedsLoad(c, lm, fs.mtime)
    THEN [cache |-> LoadSchemas(c, fe), lastMtime |-> Some(fs.mtime),
          reads |-> 1, threw |-> FALSE]
    ELSE [cache |-> c, lastMtime |-> lm, reads |-> 0, threw |-> FALSE]

\* refreshIfNeeded against the file as seen by existsSync (fe), statSync (fs)
\* and readFileSync (fr).  reads counts the readFileSync calls made; threw
\* tells whether an exception left the method.
RefreshIfNeeded(c, lm, fe, fs, fr) ==
    IF ~fe.exists
    THEN LET m == OnMissing(c, lm)
         IN [cache |-> m.cache, lastMtime |-> m.lastMtime, reads |-> 0, threw |-> FALSE]
    ELSE IF ~fs.exists
    THEN \* statSync throws; the catch keeps the existing cache
         [cache |-> c, lastMtime |-> lm, reads |-> 0, threw |-> FALSE]
    ELSE IF NeedsLoad(c, lm, fs.mtime)
    THEN [cache |-> LoadSchemas(c, fr), lastMtime |-> Some(fs.mtime),
          reads |-> 1, threw |-> FALSE]
    ELSE [cache |-> c, lastMtime |-> lm, reads |-> 0, threw |-> FALSE]

(***************************************************************************)
(* collectInheritedFields                                                  *)
(***************************************************************************)
\* { ...field, originTagName: supertag.name, depth: depth }
Annotate(field, tagName, depth) ==
    [attributeId   |-> field.attributeId,
     name          |-> field.name,
     dataType      |-> field.dataType,
     originTagName |-> tagName,
     depth         |-> depth]

RECURSIVE AddUnseen(_, _)
\* if (!seenFieldNames.has(field.name)) { seenFieldNames.add(...); allFields.push(...) }
AddUnseen(acc, fs) ==
    IF fs = <<>> THEN acc
    ELSE LET f == Head(fs)
         IN AddUnseen(IF f.name \in acc.seen
                      THEN acc
                      ELSE [fields |-> Append(acc.fields, f),
                            seen   |-> acc.seen \cup {f.name}],
                      Tail(fs))

\* the loop over the tag's own fields
AddOwnFields(supertag, depth) ==
    AddUnseen([fields |-> <<>>, seen |-> {}],
              [i \in 1..Len(supertag.fields) |->
                  Annotate(supertag.fields[i], supertag.name, depth)])

MergeParentFieldsNoCheck(acc, parentFields) ==
    [fields |-> acc.fields \o parentFields,
     seen   |-> acc.seen \cup {parentFields[i].name : i \in 1..Len(parentFields)}]

RECURSIVE MergeParentFieldsLastWins(_, _)
MergeParentFieldsLastWins(acc, parentFields) ==
    IF parentFields = <<>> THEN acc
    ELSE LET f == Head(parentFields)
             replaced == [i \in 1..Len(acc.fields) |->
                             IF acc.fields[i].name = f.name THEN f ELSE acc.fields[i]]
         IN MergeParentFieldsLastWins(
                IF f.name \in acc.seen
                THEN [fields |-> replaced, seen |-> acc.seen]
                ELSE [fields |-> Append(acc.fields, f), seen |-> acc.seen \cup {f.name}],
                Tail(parentFields))

\* the loop over parentFields
MergeParentFields(acc, parentFields) == AddUnseen(acc, parentFields)

\* Array.from(this.cache.values()).find(s => s.id === parentId)
FindById(m, parentId) ==
    LET vs == MapValues(m)
        hit == {i \in 1..Len(vs) : vs[i].id = parentId}
    IN IF hit = {} THEN NULL
       ELSE Some(vs[CHOOSE i \in hit : \A j \in hit : i <= j])

VisitedCopied(callerVisited, calleeVisited) == callerVisited

\* visited is one Set shared by reference: what the recursive call added is
\* seen by the caller and by the parents visited after it
VisitedShared(callerVisited, calleeVisited) == calleeVisited

RECURSIVE CollectInheritedFields(_, _, _, _)
RECURSIVE CollectParents(_, _, _, _)

\* the loop over supertag.extends; acc = [fields, seen, visited, trace]
CollectParents(m, ext, depth, acc) ==
    IF ext = <<>> THEN acc
    ELSE LET parent == FindById(m, Head(ext))
         IN IF parent = NULL
            THEN CollectParents(m, Tail(ext), depth, acc)
            ELSE LET pr == CollectInheritedFields(m, Val(parent), acc.visited, depth + 1)
                     mg == MergeParentFields([fields |-> acc.fields, seen |-> acc.seen],
                                             pr.fields)
                 IN CollectParents(m, Tail(ext), depth,
                        [fields  |-> mg.fields,
                         seen    |-> mg.seen,
                         visited |-> VisitedShared(acc.visited, pr.visited),
                         trace   |-> acc.trace \o pr.trace])

\* Returns the collected fields, the visited set after the call, and (as an
\* observation) the ids of the tags whose own fields were collected, in order.
CollectInheritedFields(m, supertag, visited, depth) ==
    IF supertag.id \in visited
    THEN [fields |-> <<>>, visited |-> visited, trace |-> <<>>]
    ELSE LET own == AddOwnFields(supertag, depth)
             r   == CollectParents(m, supertag.extends, depth,
                        [fields  |-> own.fields,
                         seen    |-> own.seen,
                         visited |-> visited \cup {supertag.id},
                         trace   |-> <<supertag.id>>])
         IN [fields |-> r.fields, visited |-> r.visited, trace |-> r.trace]

(***************************************************************************)
(* getSupertag / getAllSupertags (after refreshIfNeeded)                   *)
(***************************************************************************)
GetSupertagInPlace(c, tagName) ==
    IF c = NULL \/ MapGet(Val(c), tagName) = NULL
    THEN [result |-> NULL, trace |-> <<>>, cache |-> c]
    ELSE LET supertag == Val(MapGet(Val(c), tagName))
             r == CollectInheritedFields(Val(c), supertag, {}, 0)
             stored == [supertag EXCEPT !.fields = r.fields]
         IN [result |-> Some(stored), trace |-> r.trace,
             cache  |-> Some(MapSet(Val(c), tagName, stored))]

\* const supertag = this.cache?.get(tagName); if (!supertag) return null;
\* result: null or { ...supertag, fields: allFields }; cache: the map after
\* the call (the stored tags are copied, never written)
GetSupertag(c, tagName) ==
    IF c = NULL \/ MapGet(Val(c), tagName) = NULL
    THEN [result |-> NULL, trace |-> <<>>, cache |-> c]
    ELSE LET supertag == Val(MapGet(Val(c), tagName))
             r == CollectInheritedFields(Val(c), supertag, {}, 0)
         IN [result |-> Some([supertag EXCEPT !.fields = r.fields]),
             trace  |-> r.trace,
             cache  |-> c]

\* this.cache ? Array.from(this.cache.values()) : []
GetAllSupertags(c) == IF c = NULL THEN <<>> ELSE MapValues(Val(c))

(***************************************************************************)
(* Snapshots the sync process may write                                    *)
(***************************************************************************)
NoParents == [id \in TagIds |-> <<>>]
NoFields  == [id \in TagIds |-> <<>>]

\* A extends [B, C], B extends [D]; C and D both declare X
TwoBranchRegistry ==
    Registry([NoParents EXCEPT !["t1"] = <<"t2", "t3">>, !["t2"] = <<"t4">>],
             [NoFields EXCEPT !["t1"] = <<"Y">>, !["t3"] = <<"X">>, !["t4"] = <<"X">>])

\* A extends [B], B extends [A]
CycleRegistry ==
    Registry([NoParents EXCEPT !["t1"] = <<"t2">>, !["t2"] = <<"t1">>],
             [NoFields EXCEPT !["t1"] = <<"X">>, !["t2"] = <<"X", "Y">>])

\* { "version": 1, "supertags": [] }
EmptyRegistry == <<>>

Pool == {TwoBranchRegistry, CycleRegistry, EmptyRegistry}

TagNames == {TagName(id) : id \in TagIds}

\* names a caller asks for: names of tags and one that no snapshot has
QueryNames == {"A", "B", "nonexistent"}

(***************************************************************************)
(* Observations                                                            *)
(***************************************************************************)
NoCall ==
    [kind |-> "none", tagName |-> "", result |-> NULL, list |-> <<>>,
     fileAtCall |-> NoFile]

Observation(kind, tagName, result, list, f) ==
    [kind |-> kind, tagName |-> tagName, result |-> result, list |-> list,
     fileAtCall |-> f]

\* no call of a pure function of the clipper is under way
NoArgs == [fn |-> "none"]

NoOp ==
    [call |-> NoCall, trace |-> <<>>, threw |-> FALSE, reads |-> 0,
     earlier |-> NoCall]

(***************************************************************************)
(* State machine                                                           *)
(***************************************************************************)
Init ==
    /\ file = NoFile
    /\ clock = 0
    /\ cache = NULL
    /\ lastMtime = NULL
    /\ lastOp = NoOp
    /\ prev = NoCall
    /\ call = NoArgs
    /\ ret = NULL
    /\ StorageIdle

\* getSupertag(tagName): refreshIfNeeded, lookup, inheritance resolution
GetSupertagCall(tagName, remember) ==
    LET rf  == RefreshIfNeeded(cache, lastMtime, file, file, file)
        g   == GetSupertag(rf.cache, tagName)
        obs == Observation("getSupertag", tagName, g.result, <<>>, file)
    IN /\ cache' = g.cache
       /\ lastMtime' = rf.lastMtime
       /\ lastOp' = [call |-> obs, trace |-> g.trace, threw |-> rf.threw,
                     reads |-> rf.reads, earlier |-> prev]
       /\ prev' = IF remember THEN obs ELSE prev
       /\ UNCHANGED <<file, clock, call, ret, storeVars>>

\* getAllSupertags(): refreshIfNeeded, then the map's values
GetAllSupertagsCall(remember) ==
    LET rf  == RefreshIfNeeded(cache, lastMtime, file, file, file)
        obs == Observation("getAllSupertags", "", NULL, GetAllSupertags(rf.cache), file)
    IN /\ cache' = rf.cache
       /\ lastMtime' = rf.lastMtime
       /\ lastOp' = [call |-> obs, trace |-> <<>>, threw |-> rf.threw,
                     reads |-> rf.reads, earlier |-> prev]
       /\ prev' = IF remember THEN obs ELSE prev
       /\ UNCHANGED <<file, clock, call, ret, storeVars>>

\* The sync process.  Every rewrite of the snapshot happens at a later tick
\* of the file-system clock than the one before, so a rewritten file carries
\* a new mtime; only the completion of a write in progress may fall into the
\* tick in which that write began.

\* The snapshot is replaced in one step (write + rename).
ReplaceSnapshot(content) ==
    /\ clock < MaxClock
    /\ clock' = clock + 1
    /\ file' = [exists |-> TRUE, mtime |-> clock + 1, content |-> content]
    /\ UNCHANGED <<cache, lastMtime, lastOp, prev, call, ret, storeVars>>

\* The sync process starts to overwrite the snapshot in place: the file is
\* truncated and holds a prefix of the new registry.
BeginWrite(tags) ==
    /\ clock < MaxClock
    /\ clock' = clock + 1
    /\ file' = [exists |-> TRUE, mtime |-> clock + 1, content |-> PartialContent(tags)]
    /\ UNCHANGED <<cache, lastMtime, lastOp, prev, call, ret, storeVars>>

\* The write in progress completes, within the same clock tick or a later one.
FinishWrite(tick) ==
    /\ file.exists
    /\ file.content.kind = "partial"
    /\ clock + tick <= MaxClock
    /\ clock' = clock + tick
    /\ file' = [exists |-> TRUE, mtime |-> file.mtime + tick,
                content |-> JsonContent(file.content.supertags)]
    /\ UNCHANGED <<cache, lastMtime, lastOp, prev, call, ret, storeVars>>

\* The snapshot is removed (workspace deleted).
DeleteSnapshot ==
    /\ file.exists
    /\ file' = NoFile
    /\ UNCHANGED <<clock, cache, lastMtime, lastOp, prev, call, ret, storeVars>>

Contents == {JsonContent(tags) : tags \in Pool} \cup {GarbageContent, NoArrayContent}

Next ==
    \/ \E n \in QueryNames, r \in BOOLEAN : GetSupertagCall(n, r)
    \/ \E r \in BOOLEAN : GetAllSupertagsCall(r)
    \/ \E c \in Contents : ReplaceSnapshot(c)
    \/ \E tags \in Pool : BeginWrite(tags)
    \/ \E tick \in {0, 1} : FinishWrite(tick)
    \/ DeleteSnapshot

Spec == Init /\ [][Next]_vars

TypeOK ==
    /\ file.exists \in BOOLEAN
    /\ clock \in 0..MaxClock
    /\ lastOp.reads \in {0, 1}

(***************************************************************************)
(* Inheritance resolution over generated snapshots: the file holds one     *)
(* registry and does not change; the caller resolves tag A.  The generated *)
(* registries are closed under exchanging the ids t1, t2, t3, so every     *)
(* tag with parents plays the part of A in one of them.                    *)
(***************************************************************************)
RECURSIVE TotalLen(_, _)
TotalLen(f, ids) ==
    IF ids = {} THEN 0
    ELSE LET id == CHOOSE x \in ids : TRUE
         IN Len(f[id]) + TotalLen(f, ids \ {id})

\* extends lists: any ids, including the tag itself, repeated ids and cycles;
\* the last tag is kept a root
ExtendsChoices ==
    {e \in [TagIds -> ShortLists(TagIds)] :
        e["t4"] = <<>> /\ TotalLen(e, TagIds) <= MaxEdges}

\* own field names: any names, including a name twice on one tag
FieldChoices ==
    {l \in [TagIds -> ShortLists(FieldNames)] : TotalLen(l, TagIds) <= MaxFieldsTotal}

InitResolve ==
    /\ \E e \in ExtendsChoices, l \in FieldChoices :
          file = [exists |-> TRUE, mtime |-> 1, content |-> JsonContent(Registry(e, l))]
    /\ clock = 1
    /\ cache = NULL
    /\ lastMtime = NULL
    /\ lastOp = NoOp
    /\ prev = NoCall
    /\ call = NoArgs
    /\ ret = NULL
    /\ StorageIdle

NextResolve == GetSupertagCall("A", FALSE)

SpecResolve == InitResolve /\ [][NextResolve]_vars

(***************************************************************************)
(* Properties of the cache (specification Spec)                            *)
(***************************************************************************)
Op == lastOp.call
Earlier == lastOp.earlier

Called == Op.kind # "none"

ValidFile(f) == f.exists /\ Parsable(f.content)
CorruptFile(f) == f.exists /\ ~Parsable(f.content)

\* what a cache built from nothing but the file f answers
FreshCache(f) == LoadSchemas(NULL, f)
FreshResult(f, tagName) == GetSupertag(FreshCache(f), tagName).result
FreshList(f) == GetAllSupertags(FreshCache(f))

SameQuery(a, b) == a.kind = b.kind /\ a.tagName = b.tagName

\* C1: once a getSupertag call has loaded the snapshot and the file has then
\* been rewritten with different content and a different modification time,
\* a later getSupertag call returns what the new content holds (absent when
\* the new content holds nothing for the name), not the earlier content.
C1_Freshness ==
    ( /\ Op.kind = "getSupertag"
      /\ Earlier.kind = "getSupertag"
      /\ ValidFile(Earlier.fileAtCall)
      /\ Op.fileAtCall.exists
      /\ Op.fileAtCall.mtime # Earlier.fileAtCall.mtime
      /\ Op.fileAtCall.content # Earlier.fileAtCall.content )
    => Op.result = FreshResult(Op.fileAtCall, Op.tagName)

C1_Witness ==
    /\ Op.kind = "getSupertag"
    /\ Earlier.kind = "getSupertag"
    /\ Earlier.tagName = Op.tagName
    /\ ValidFile(Earlier.fileAtCall)
    /\ ValidFile(Op.fileAtCall)
    /\ Op.fileAtCall.mtime # Earlier.fileAtCall.mtime
    /\ Op.fileAtCall.content # Earlier.fileAtCall.content
    /\ Earlier.result # NULL
    /\ Op.result # NULL
    /\ Op.result # Earlier.result
    /\ lastOp.reads = 1

\* C2: a call made while the snapshot file does not exist returns null
\* (getSupertag) or the empty list (getAllSupertags), raises nothing, and
\* leaves cache and lastMtime cleared, whatever was loaded before.
C2_MissingFile ==
    (Called /\ ~Op.fileAtCall.exists)
    => /\ Op.result = NULL
       /\ Op.list = <<>>
       /\ ~lastOp.threw
       /\ cache = NULL
       /\ lastMtime = NULL

C2_Witness ==
    /\ Op.kind = "getSupertag"
    /\ ~Op.fileAtCall.exists
    /\ Earlier.kind = "getSupertag"
    /\ Earlier.tagName = Op.tagName
    /\ Earlier.result # NULL
    /\ Op.result = NULL

C10_Idempotent ==
    /\ ( /\ Op.kind = "getSupertag"
         /\ SameQuery(Earlier, Op)
         /\ Earlier.fileAtCall = Op.fileAtCall )
       => Op.result = Earlier.result
    /\ (Called /\ cache # NULL) => cache = FreshCache(Op.fileAtCall)

C10_Witness ==
    /\ Op.kind = "getSupertag"
    /\ SameQuery(Earlier, Op)
    /\ Earlier.fileAtCall = Op.fileAtCall
    /\ Op.result # NULL
    /\ Len(lastOp.trace) >= 2
    /\ Len(Val(Op.result).fields) >= 2
    /\ Op.result = Earlier.result
    /\ cache = FreshCache(Op.fileAtCall)

(***************************************************************************)
(* Properties of inheritance resolution (specification SpecResolve)        *)
(***************************************************************************)
Resolved == Op.kind = "getSupertag" /\ Op.result # NULL

\* the resolved field list of the last getSupertag call
ResultFields == Val(Op.result).fields

\* the registry the call was answered from, and its tags by id
RegistryTags == Op.fileAtCall.content.supertags
HasTag(id) == \E i \in 1..Len(RegistryTags) : RegistryTags[i].id = id
TagById(id) == RegistryTags[CHOOSE i \in 1..Len(RegistryTags) : RegistryTags[i].id = id]
RootId == Val(Op.result).id

Range(q) == {q[i] : i \in 1..Len(q)}

ParentIds(id) == {p \in Range(TagById(id).extends) : HasTag(p)}

Declares(id, n) == \E k \in 1..Len(TagById(id).fields) : TagById(id).fields[k].name = n

\* the tag a resolved field was declared on
OriginId(f) == f.attributeId[1]

RECURSIVE Bfs(_, _, _, _)
\* length of the shortest extends-path to target, given the tags at distance d
Bfs(frontier, seen, target, d) ==
    IF target \in frontier THEN d
    ELSE IF frontier = {} THEN 0 - 1
    ELSE LET next == UNION {ParentIds(x) : x \in frontier} \ seen
         IN Bfs(next, seen \cup next, target, d + 1)

Dist(from, to) == Bfs({from}, {from}, to, 0)

ReachableIds(from) == {id \in TagIds : HasTag(id) /\ Dist(from, id) >= 0}

\* C6: the field list returned by getSupertag never holds two fields with
\* the same name, whatever the extends graph (several parents, diamonds,
\* cycles) and also when a tag's own field list repeats a name.
C6_UniqueNames ==
    Resolved =>
        \A i, j \in 1..Len(ResultFields) :
            i # j => ResultFields[i].name # ResultFields[j].name

\* some name was declared more than once among the tags visited
C6_Witness ==
    /\ Resolved
    /\ Len(lastOp.trace) >= 3
    /\ \E a, b \in Range(lastOp.trace) :
          a # b /\ a # RootId /\ b # RootId /\ \E n \in FieldNames : Declares(a, n) /\ Declares(b, n)
    /\ Len(ResultFields) >= 1

\* C7: of the reachable tags that declare a field name, the resolved list
\* keeps the field of a tag at the smallest inheritance depth.
C7_ShallowestWins ==
    Resolved =>
        \A k \in 1..Len(ResultFields) :
            \A t \in ReachableIds(RootId) :
                Declares(t, ResultFields[k].name)
                    => Dist(RootId, OriginId(ResultFields[k])) <= Dist(RootId, t)

\* C8: for every name the resolved tag declares itself, the resolved list
\* holds the tag's own field of that name (its attributeId and dataType,
\* originTagName the tag, depth 0), and own fields precede inherited ones.
C8_OwnFieldWins ==
    Resolved =>
        LET root == TagById(RootId)
            Own(f) == OriginId(f) = RootId
        IN /\ \A n \in FieldNames :
                Declares(RootId, n) =>
                    \E k \in 1..Len(ResultFields) :
                        /\ ResultFields[k].name = n
                        /\ \E i \in 1..Len(root.fields) :
                              /\ root.fields[i].name = n
                              /\ ResultFields[k].attributeId = root.fields[i].attributeId
                              /\ ResultFields[k].dataType = root.fields[i].dataType
                        /\ ResultFields[k].originTagName = root.name
                        /\ ResultFields[k].depth = 0
                        /\ \A j \in 1..Len(ResultFields) :
                              ResultFields[j].name = n => j = k
           /\ \A i, j \in 1..Len(ResultFields) :
                (i < j /\ Own(ResultFields[j])) => Own(ResultFields[i])

\* the resolved tag and an ancestor two levels up declare the same name
C8_Witness ==
    /\ Resolved
    /\ \E n \in FieldNames, a \in Range(lastOp.trace) :
          /\ a # RootId
          /\ Dist(RootId, a) = 2
          /\ Declares(RootId, n)
          /\ Declares(a, n)
          /\ \E k \in 1..Len(ResultFields) :
                ResultFields[k].name = n /\ OriginId(ResultFields[k]) = RootId

RECURSIVE FirstPerName(_, _)
\* the fields of q whose name is not in taken and not an earlier field's
FirstPerName(q, taken) ==
    IF q = <<>> THEN <<>>
    ELSE IF Head(q).name \in taken THEN FirstPerName(Tail(q), taken)
    ELSE <<Head(q)>> \o FirstPerName(Tail(q), taken \cup {Head(q).name})

AttributeIds(q) == [i \in 1..Len(q) |-> q[i].attributeId]

\* tag a extends exactly b, and b extends exactly a
TwoCycle(a, b) ==
    /\ a # b
    /\ TagById(a).extends = <<b>>
    /\ TagById(b).extends = <<a>>

\* C9: resolution ends without an exception on every extends graph, cycles
\* included; no tag's own fields are collected twice in one resolution; and
\* for A extends B, B extends A, resolving A gives A's own fields (one per
\* name) followed by the fields of B whose names A does not declare.
C9_CycleSafe ==
    (Op.kind = "getSupertag" /\ Op.fileAtCall.exists) =>
        /\ ~lastOp.threw
        /\ \A i, j \in 1..Len(lastOp.trace) : i # j => lastOp.trace[i] # lastOp.trace[j]
        /\ Resolved =>
              /\ lastOp.trace # <<>>
              /\ lastOp.trace[1] = RootId
              /\ \A b \in TagIds :
                    (HasTag(b) /\ TwoCycle(RootId, b)) =>
                        LET own  == FirstPerName(TagById(RootId).fields, {})
                            rest == FirstPerName(TagById(b).fields,
                                                 {own[i].name : i \in 1..Len(own)})
                        IN /\ AttributeIds(ResultFields) = AttributeIds(own) \o AttributeIds(rest)
                           /\ lastOp.trace = <<RootId, b>>

C9_Witness ==
    /\ Resolved
    /\ \E b \in TagIds : HasTag(b) /\ TwoCycle(RootId, b) /\ TagById(b).fields # <<>>
    /\ TagById(RootId).fields # <<>>
    /\ Len(ResultFields) = 2
    /\ OriginId(ResultFields[2]) # RootId

(***************************************************************************)
(* getAllSupertags against getSupertag (specification Spec)                *)
(***************************************************************************)
\* C11: every element of the list getAllSupertags returns carries the same
\* fields, own and inherited, that getSupertag returns for that tag's name.
C11_ListResolved ==
    (Op.kind = "getAllSupertags" /\ ValidFile(Op.fileAtCall))
    => \A i \in 1..Len(Op.list) :
          AttributeIds(Op.list[i].fields)
            = AttributeIds(Val(FreshResult(Op.fileAtCall, Op.list[i].name)).fields)

(***************************************************************************)
(* Strings: a string is the sequence of its characters, so that            *)
(* toLowerCase, includes and the analyzer's regular expressions act on     *)
(* the text itself.                                                        *)
(***************************************************************************)
UpperChars == <<"A", "B", "C", "D", "E", "F", "G", "H", "I", "J", "K", "L", "M", "N", "O", "P", "Q", "R", "S", "T", "U", "V", "W", "X", "Y", "Z">>
LowerChars == <<"a", "b", "c", "d", "e", "f", "g", "h", "i", "j", "k", "l", "m", "n", "o", "p", "q", "r", "s", "t", "u", "v", "w", "x", "y", "z">>

\* String.prototype.toLowerCase, character by character
LowerOf ==
    [c \in Range(UpperChars) |->
        LowerChars[CHOOSE i \in 1..Len(UpperChars) : UpperChars[i] = c]]

LowerChar(c) == IF c \in DOMAIN LowerOf THEN LowerOf[c] ELSE c

ToLowerCase(s) == [i \in 1..Len(s) |-> LowerChar(s[i])]

\* String.prototype.includes
Includes(s, part) ==
    \E i \in 0..(Len(s) - Len(part)) : SubSeq(s, i + 1, i + Len(part)) = part

StartsWith(s, prefix) ==
    Len(prefix) <= Len(s) /\ SubSeq(s, 1, Len(prefix)) = prefix

\* a value used as a condition: undefined and "" count as false
Truthy(o) == o # NULL /\ Val(o) # <<>>

(***************************************************************************)
(* supertag-analyzer.ts                                                    *)
(***************************************************************************)
MaxSchemaFields == 4   \* number of fields of an analyzed schema

SCORES == [URL_FIELD |-> 10, TEXT_FIELD |-> 5, AUTHOR_FIELD |-> 2, DESCRIPTION_FIELD |-> 3]

\* /^(a|b|...)/i: the alternatives, an optional last letter written out
PATTERNS ==
    [URL         |-> {<<"u", "r", "l">>, <<"l", "i", "n", "k">>, <<"s", "o", "u", "r", "c", "e">>, <<"h", "r", "e", "f">>},
     TEXT        |-> {<<"n", "o", "t", "e", "s">>, <<"n", "o", "t", "e">>, <<"s", "u", "m", "m", "a", "r", "y">>, <<"h", "i", "g", "h", "l", "i", "g", "h", "t", "s">>, <<"h", "i", "g", "h", "l", "i", "g", "h", "t">>, <<"s", "n", "a", "p", "s", "h", "o", "t">>, <<"c", "o", "n", "t", "e", "n", "t">>, <<"e", "x", "c", "e", "r", "p", "t">>, <<"d", "e", "s", "c", "r", "i", "p", "t", "i", "o", "n">>, <<"t", "e", "x", "t">>},
     AUTHOR      |-> {<<"a", "u", "t", "h", "o", "r">>, <<"c", "r", "e", "a", "t", "o", "r">>, <<"b", "y">>, <<"w", "r", "i", "t", "e", "r">>},
     DESCRIPTION |-> {<<"d", "e", "s", "c", "r", "i", "p", "t", "i", "o", "n">>, <<"s", "u", "m", "m", "a", "r", "y">>, <<"a", "b", "o", "u", "t">>, <<"o", "v", "e", "r", "v", "i", "e", "w">>}]

\* RegExp.prototype.test for an anchored, case-insensitive alternation
Test(pattern, name) == \E alt \in pattern : StartsWith(ToLowerCase(name), alt)

IsUrlField(field) ==
    \/ field.dataType = "url"
    \/ Test(PATTERNS.URL, field.name)
    \/ Includes(ToLowerCase(field.name), <<"u", "r", "l">>)

UrlStepEveryMatch(a, field) ==
    IF IsUrlField(field)
    THEN [a EXCEPT !.hasUrlField = TRUE, !.urlFieldName = Some(field.name),
                   !.score = @ + SCORES.URL_FIELD]
    ELSE a

\* URL field detection (by dataType or name pattern)
UrlStep(a, field) ==
    IF IsUrlField(field) /\ ~a.hasUrlField
    THEN [a EXCEPT !.hasUrlField = TRUE, !.urlFieldName = Some(field.name),
                   !.score = @ + SCORES.URL_FIELD]
    ELSE a

TextStepFirstOnly(a, field) ==
    IF Test(PATTERNS.TEXT, field.name) /\ a.textFields = <<>>
    THEN [a EXCEPT !.textFields = Append(@, field.name), !.score = @ + SCORES.TEXT_FIELD]
    ELSE a

\* text field detection (for selection content)
TextStep(a, field) ==
    IF Test(PATTERNS.TEXT, field.name)
    THEN [a EXCEPT !.textFields = Append(@, field.name), !.score = @ + SCORES.TEXT_FIELD]
    ELSE a

\* author field detection
AuthorStep(a, field) ==
    IF Test(PATTERNS.AUTHOR, field.name) /\ ~a.hasAuthorField
    THEN [a EXCEPT !.hasAuthorField = TRUE, !.authorFieldName = Some(field.name),
                   !.score = @ + SCORES.AUTHOR_FIELD]
    ELSE a

\* description field detection
DescriptionStep(a, field) ==
    IF Test(PATTERNS.DESCRIPTION, field.name) /\ ~Truthy(a.descriptionFieldName)
    THEN [a EXCEPT !.descriptionFieldName = Some(field.name),
                   !.score = @ + SCORES.DESCRIPTION_FIELD]
    ELSE a

\* the body of the loop over supertag.fields
AnalyzeField(a, field) ==
    DescriptionStep(AuthorStep(TextStep(UrlStep(a, field), field), field), field)

RECURSIVE AnalyzeFields(_, _)
AnalyzeFields(a, fields) ==
    IF fields = <<>> THEN a
    ELSE AnalyzeFields(AnalyzeField(a, Head(fields)), Tail(fields))

AnalyzeSupertag(supertag) ==
    AnalyzeFields([supertag |-> supertag, score |-> 0,
                   hasUrlField |-> FALSE, urlFieldName |-> NULL,
                   textFields |-> <<>>,
                   hasAuthorField |-> FALSE, authorFieldName |-> NULL,
                   descriptionFieldName |-> NULL],
                  supertag.fields)

\* fields of the schemas handed to the analyzer: names that match one
\* family, two families or none, by prefix, by containment or by dataType
ClipField(name, dataType) == [name |-> name, dataType |-> dataType]

ClipFieldChoices ==
    {ClipField(<<"L", "i", "n", "k">>, "plain"),
     ClipField(<<"P", "a", "g", "e", " ", "U", "R", "L">>, "plain"),
     ClipField(<<"W", "e", "b", "s", "i", "t", "e">>, "url"),
     ClipField(<<"N", "o", "t", "e", "s">>, "plain"),
     ClipField(<<"N", "o", "t", "e", "s">>, "url"),
     ClipField(<<"S", "u", "m", "m", "a", "r", "y">>, "plain"),
     ClipField(<<"H", "i", "g", "h", "l", "i", "g", "h", "t", "s">>, "plain"),
     ClipField(<<"A", "u", "t", "h", "o", "r">>, "plain"),
     ClipField(<<"B", "y", "l", "i", "n", "e">>, "plain"),
     ClipField(<<"A", "b", "o", "u", "t">>, "plain"),
     ClipField(<<"S", "t", "a", "t", "u", "s">>, "plain")}

ListsUpTo(S, n) == UNION {[1..k -> S] : k \in 0..n}

ClipSupertag(name, fields) == [name |-> name, fields |-> fields]

\* the cache takes no part in a call of a pure function
CacheIdle ==
    /\ file = NoFile
    /\ clock = 0
    /\ cache = NULL
    /\ lastMtime = NULL
    /\ lastOp = NoOp
    /\ prev = NoCall

cacheVars == <<file, clock, cache, lastMtime, lastOp, prev>>

InitAnalyze ==
    /\ \E fields \in ListsUpTo(ClipFieldChoices, MaxSchemaFields) :
          call = [fn |-> "analyzeSupertag",
                  supertag |-> ClipSupertag(<<"b", "o", "o", "k", "m", "a", "r", "k">>, fields)]
    /\ ret = NULL
    /\ CacheIdle
    /\ StorageIdle

AnalyzeSupertagCall ==
    /\ call.fn = "analyzeSupertag"
    /\ ret = NULL
    /\ ret' = Some(AnalyzeSupertag(call.supertag))
    /\ UNCHANGED <<cacheVars, storeVars, call>>

NextAnalyze == AnalyzeSupertagCall

SpecAnalyze == InitAnalyze /\ [][NextAnalyze]_vars

(***************************************************************************)
(* Properties of analyzeSupertag (specification SpecAnalyze)               *)
(***************************************************************************)
Analyzed == Val(ret)
SchemaFields == call.supertag.fields

\* positions of the fields of a family, in field order
UrlLike == {i \in 1..Len(SchemaFields) : IsUrlField(SchemaFields[i])}
TextLike == {i \in 1..Len(SchemaFields) : Test(PATTERNS.TEXT, SchemaFields[i].name)}
AuthorLike == {i \in 1..Len(SchemaFields) : Test(PATTERNS.AUTHOR, SchemaFields[i].name)}
DescriptionLike == {i \in 1..Len(SchemaFields) : Test(PATTERNS.DESCRIPTION, SchemaFields[i].name)}

Min(S) == CHOOSE x \in S : \A y \in S : x <= y

\* name of the first field of a family, undefined when the family is empty
FirstName(family) == IF family = {} THEN NULL ELSE Some(SchemaFields[Min(family)].name)

Once(family, points) == IF family = {} THEN 0 ELSE points

IsTextField(field) == Test(PATTERNS.TEXT, field.name)

Names(q) == [i \in 1..Len(q) |-> q[i].name]

\* C12: the score is 10 if some field is URL-like, plus 5 for every
\* text-like field, plus 2 if some field is author-like, plus 3 if some
\* field is description-like, a field counting in every family it matches;
\* a schema without any match scores 0; urlFieldName, authorFieldName and
\* descriptionFieldName name the first matching field in field order and
\* textFields lists all text-like fields in field order.
C12_ScoreRule ==
    ret # NULL =>
      /\ Analyzed.score = Once(UrlLike, 10) + 5 * Cardinality(TextLike)
                          + Once(AuthorLike, 2) + Once(DescriptionLike, 3)
      /\ (UrlLike \cup TextLike \cup AuthorLike \cup DescriptionLike = {}
            => Analyzed.score = 0)
      /\ Analyzed.hasUrlField = (UrlLike # {})
      /\ Analyzed.urlFieldName = FirstName(UrlLike)
      /\ Analyzed.hasAuthorField = (AuthorLike # {})
      /\ Analyzed.authorFieldName = FirstName(AuthorLike)
      /\ Analyzed.descriptionFieldName = FirstName(DescriptionLike)
      /\ Analyzed.textFields = Names(SelectSeq(SchemaFields, IsTextField))

\* two URL-like and two text-like fields, one of them both URL-like and
\* text-like and one both text-like and description-like
C12_Witness ==
    /\ ret # NULL
    /\ Cardinality(UrlLike) = 2
    /\ Cardinality(TextLike) = 2
    /\ UrlLike \cap TextLike # {}
    /\ TextLike \cap DescriptionLike # {}
    /\ Analyzed.score = 23

RemoveAt(q, i) == SubSeq(q, 1, i - 1) \o SubSeq(q, i + 1, Len(q))

\* the score of the schema that lacks the field at position i
ScoreWithout(i) ==
    AnalyzeSupertag(ClipSupertag(call.supertag.name, RemoveAt(SchemaFields, i))).score

\* a URL-typed field next to two text-pattern fields
UrlTypedWithTwoTexts(i) ==
    /\ SchemaFields[i].dataType = "url"
    /\ Cardinality(TextLike \ {i}) >= 2

\* C13: a schema with a URL-typed field and two text-pattern fields scores
\* strictly higher than the schema without that URL-typed field, whatever
\* the other fields are called.
C13_UrlFieldRaisesScore ==
    ret # NULL =>
      \A i \in 1..Len(SchemaFields) :
         UrlTypedWithTwoTexts(i) => Analyzed.score > ScoreWithout(i)

\* C13 (amended): the score is strictly higher when no other field of the
\* schema is URL-like; when another field is URL-like by type or by name the
\* score is not lower, and it is the same when the removed field matches no
\* other family.
C13_UrlFieldRaisesScoreWhenOnlyUrl ==
    ret # NULL =>
      \A i \in 1..Len(SchemaFields) :
         UrlTypedWithTwoTexts(i) =>
           /\ UrlLike \ {i} = {} => Analyzed.score > ScoreWithout(i)
           /\ UrlLike \ {i} # {} => Analyzed.score >= ScoreWithout(i)
           /\ (UrlLike \ {i} # {} /\ i \notin TextLike \cup AuthorLike \cup DescriptionLike)
                => Analyzed.score = ScoreWithout(i)

\* the only URL-like field is URL-typed and stands next to two text fields
C13_Witness ==
    /\ ret # NULL
    /\ \E i \in 1..Len(SchemaFields) :
          /\ UrlTypedWithTwoTexts(i)
          /\ UrlLike = {i}
          /\ Analyzed.score = ScoreWithout(i) + 10

(***************************************************************************)
(* findClipFriendlySupertags (supertag-analyzer.ts)                        *)
(***************************************************************************)
MaxSupertags == 3      \* number of supertags handed to findClipFriendlySupertags

\* const { minScore = 0, limit } = options
MinScoreOf(options) == IF options.minScore = NULL THEN 0 ELSE Val(options.minScore)

MapAnalyze(supertags) == [i \in 1..Len(supertags) |-> AnalyzeSupertag(supertags[i])]

\* the filter's predicate
Qualifies(a, minScore) == a.score >= minScore

RECURSIVE Filter(_, _)
Filter(analyzed, minScore) ==
    IF analyzed = <<>> THEN <<>>
    ELSE IF Qualifies(Head(analyzed), minScore)
         THEN <<Head(analyzed)>> \o Filter(Tail(analyzed), minScore)
         ELSE Filter(Tail(analyzed), minScore)

CompareAscending(a, b) == a.score - b.score

\* the comparator handed to sort
Compare(a, b) == b.score - a.score

\* Array.prototype.sort is stable: an element goes behind every element
\* that the comparator does not place after it
RECURSIVE Insert(_, _)
Insert(sorted, x) ==
    IF sorted = <<>> THEN <<x>>
    ELSE IF Compare(Head(sorted), x) <= 0
         THEN <<Head(sorted)>> \o Insert(Tail(sorted), x)
         ELSE <<x>> \o sorted

RECURSIVE SortInto(_, _)
SortInto(sorted, q) ==
    IF q = <<>> THEN sorted ELSE SortInto(Insert(sorted, Head(q)), Tail(q))

Sort(q) == SortInto(<<>>, q)

\* Array.prototype.slice(0, end)
Slice(q, end) ==
    LET e == IF end < 0 THEN (IF Len(q) + end < 0 THEN 0 ELSE Len(q) + end)
             ELSE (IF end > Len(q) THEN Len(q) ELSE end)
    IN SubSeq(q, 1, e)

\* limit !== undefined
LimitGiven(limit) == limit # NULL

FindClipFriendlySupertags(supertags, options) ==
    LET filtered == Sort(Filter(MapAnalyze(supertags), MinScoreOf(options)))
    IN IF LimitGiven(options.limit) THEN Slice(filtered, Val(options.limit)) ELSE filtered

\* supertags with scores 0, 5, 5, 15 and 15
SupertagChoices ==
    {ClipSupertag(<<"t", "a", "s", "k">>, <<ClipField(<<"S", "t", "a", "t", "u", "s">>, "plain")>>),
     ClipSupertag(<<"n", "o", "t", "e">>, <<ClipField(<<"N", "o", "t", "e", "s">>, "plain")>>),
     ClipSupertag(<<"q", "u", "o", "t", "e">>, <<ClipField(<<"H", "i", "g", "h", "l", "i", "g", "h", "t", "s">>, "plain")>>),
     ClipSupertag(<<"b", "o", "o", "k", "m", "a", "r", "k">>, <<ClipField(<<"L", "i", "n", "k">>, "plain"), ClipField(<<"N", "o", "t", "e", "s">>, "plain")>>),
     ClipSupertag(<<"p", "a", "g", "e">>, <<ClipField(<<"W", "e", "b", "s", "i", "t", "e">>, "url"), ClipField(<<"H", "i", "g", "h", "l", "i", "g", "h", "t", "s">>, "plain")>>)}

MinScoreChoices == {NULL, Some(5), Some(6)}

LimitChoices == {NULL} \cup {Some(n) : n \in 0..MaxSupertags}

InitFind ==
    /\ \E supertags \in ListsUpTo(SupertagChoices, MaxSupertags),
          minScore \in MinScoreChoices, limit \in LimitChoices :
          call = [fn |-> "findClipFriendlySupertags", supertags |-> supertags,
                  options |-> [minScore |-> minScore, limit |-> limit]]
    /\ ret = NULL
    /\ CacheIdle
    /\ StorageIdle

FindClipFriendlySupertagsCall ==
    /\ call.fn = "findClipFriendlySupertags"
    /\ ret = NULL
    /\ ret' = Some(FindClipFriendlySupertags(call.supertags, call.options))
    /\ UNCHANGED <<cacheVars, storeVars, call>>

NextFind == FindClipFriendlySupertagsCall

SpecFind == InitFind /\ [][NextFind]_vars

(***************************************************************************)
(* Properties of findClipFriendlySupertags (specification SpecFind)        *)
(***************************************************************************)
Found == Val(ret)

ScoreAt(i) == AnalyzeSupertag(call.supertags[i]).score

\* positions of the input whose score reaches minScore
Qualifying == {i \in 1..Len(call.supertags) : ScoreAt(i) >= MinScoreOf(call.options)}

\* place of a qualifying position in the ranking: behind every position
\* with a higher score and every earlier position with the same score
Rank(i) ==
    1 + Cardinality({j \in Qualifying :
                        ScoreAt(j) > ScoreAt(i) \/ (ScoreAt(j) = ScoreAt(i) /\ j < i)})

PositionRanked(k) == CHOOSE i \in Qualifying : Rank(i) = k

ReturnedCount ==
    IF call.options.limit = NULL \/ Val(call.options.limit) > Cardinality(Qualifying)
    THEN Cardinality(Qualifying)
    ELSE Val(call.options.limit)

\* C14: the result holds exactly the analyzed schemas with score >= minScore
\* (0 when not given), in non-increasing score order, in input order among
\* equal scores, cut to the first limit entries when a limit is given (limit
\* 0 gives the empty list); every returned score is >= every omitted
\* qualifying score; an empty input gives an empty result.
C14_Ranking ==
    ret # NULL =>
      /\ Len(Found) = ReturnedCount
      /\ \A k \in 1..Len(Found) :
            Found[k] = AnalyzeSupertag(call.supertags[PositionRanked(k)])
      /\ \A k \in 1..(Len(Found) - 1) : Found[k].score >= Found[k + 1].score
      /\ \A k \in 1..Len(Found) :
            \A i \in Qualifying : Rank(i) > Len(Found) => Found[k].score >= ScoreAt(i)
      /\ (call.options.limit = Some(0) => Found = <<>>)
      /\ (call.supertags = <<>> => Found = <<>>)

\* a lower score stands first in the input, two equal scores follow, and
\* the limit cuts off a qualifying entry
C14_Witness ==
    /\ ret # NULL
    /\ Len(call.supertags) = 3
    /\ Cardinality(Qualifying) = 3
    /\ call.options.minScore = Some(5)
    /\ call.options.limit = Some(2)
    /\ ScoreAt(1) < ScoreAt(2)
    /\ ScoreAt(2) = ScoreAt(3)
    /\ call.supertags[2] # call.supertags[3]
    /\ Len(Found) = 2
    /\ Found[1].supertag = call.supertags[2]
    /\ Found[2].supertag = call.supertags[3]

(***************************************************************************)
(* field-mapper.ts: mapClipToFields                                        *)
(***************************************************************************)
MaxMapFields == 3      \* number of fields of a schema a clip is mapped to

\* `[${clip.title}](${clip.url})`
Interpolate(o) == IF o = NULL THEN <<"u", "n", "d", "e", "f", "i", "n", "e", "d">> ELSE Val(o)

MarkdownLink(title, url) ==
    <<"[">> \o Interpolate(title) \o <<"]", "(">> \o Interpolate(url) \o <<")">>

\* fields[name] = value; the slot is noted beside the assignment
Assign(st, slot, name, value) ==
    [fields |-> MapSet(st.fields, name, value),
     writes |-> Append(st.writes, [slot |-> slot, name |-> name, value |-> value])]

Priority == <<<<"N", "o", "t", "e", "s">>, <<"S", "u", "m", "m", "a", "r", "y">>, <<"H", "i", "g", "h", "l", "i", "g", "h", "t">>, <<"S", "n", "a", "p", "s", "h", "o", "t">>>>

\* textFields.find((f) => f.toLowerCase() === preferred.toLowerCase())
FindPreferred(textFields, preferred) ==
    LET hits == {i \in 1..Len(textFields) :
                    ToLowerCase(textFields[i]) = ToLowerCase(preferred)}
    IN IF hits = {} THEN NULL ELSE Some(textFields[Min(hits)])

RECURSIVE FirstPreferred(_, _)
FirstPreferred(textFields, priority) ==
    IF priority = <<>> THEN NULL
    ELSE LET found == FindPreferred(textFields, Head(priority))
         IN IF Truthy(found) THEN found
            ELSE FirstPreferred(textFields, Tail(priority))

\* textFields[0]
FirstElement(q) == IF q = <<>> THEN NULL ELSE Some(q[1])

GetBestTextFieldFirst(textFields) == FirstElement(textFields)

GetBestTextFieldDefault(textFields) ==
    LET found == FirstPreferred(textFields, Priority)
    IN IF found # NULL THEN found ELSE Some(Priority[1])

GetBestTextField(textFields) ==
    LET found == FirstPreferred(textFields, Priority)
    IN IF found # NULL THEN found ELSE FirstElement(textFields)

\* map URL to first URL field
UrlSlot(st, clip, analyzed, options) ==
    IF analyzed.hasUrlField /\ Truthy(analyzed.urlFieldName)
    THEN Assign(st, "url", Val(analyzed.urlFieldName),
                IF options.formatUrlAsLink
                THEN Some(MarkdownLink(clip.title, clip.url))
                ELSE clip.url)
    ELSE st

\* map selection to best text field
SelectionSlot(st, clip, analyzed) ==
    IF Truthy(clip.selection) /\ Len(analyzed.textFields) > 0
    THEN LET textFieldName == GetBestTextField(analyzed.textFields)
         IN IF Truthy(textFieldName)
            THEN Assign(st, "selection", Val(textFieldName), clip.selection)
            ELSE st
    ELSE st

\* map author if field exists
AuthorSlot(st, clip, analyzed) ==
    IF Truthy(clip.author) /\ analyzed.hasAuthorField /\ Truthy(analyzed.authorFieldName)
    THEN Assign(st, "author", Val(analyzed.authorFieldName), clip.author)
    ELSE st

\* map description if a description field exists
DescriptionSlot(st, clip, analyzed) ==
    IF Truthy(clip.description) /\ Truthy(analyzed.descriptionFieldName)
    THEN Assign(st, "description", Val(analyzed.descriptionFieldName), clip.description)
    ELSE st

\* the returned record of fields, with the assignments that built it
MapClipToFields(clip, analyzed, options) ==
    DescriptionSlot(
        AuthorSlot(
            SelectionSlot(
                UrlSlot([fields |-> EmptyMap, writes |-> <<>>], clip, analyzed, options),
                clip, analyzed),
            clip, analyzed),
        clip, analyzed)

MapFieldChoices ==
    {ClipField(<<"L", "i", "n", "k">>, "plain"),
     ClipField(<<"N", "o", "t", "e", "s">>, "plain"),
     ClipField(<<"N", "O", "T", "E", "S">>, "plain"),
     ClipField(<<"S", "u", "m", "m", "a", "r", "y">>, "plain"),
     ClipField(<<"C", "o", "n", "t", "e", "n", "t">>, "plain"),
     ClipField(<<"A", "u", "t", "h", "o", "r">>, "plain"),
     ClipField(<<"S", "t", "a", "t", "u", "s">>, "plain")}

\* an optional string of the clip: absent, empty, or a text
OptionalText(text) == {NULL, Some(<<>>), Some(text)}

ClipChoices ==
    {[url |-> u, title |-> Some(<<"T">>), selection |-> s, author |-> a, description |-> d] :
        u \in {Some(<<>>), Some(<<"u">>)},
        s \in OptionalText(<<"s">>),
        a \in OptionalText(<<"a">>),
        d \in OptionalText(<<"d">>)}

InitMap ==
    /\ \E fields \in ListsUpTo(MapFieldChoices, MaxMapFields),
          clip \in ClipChoices, formatUrlAsLink \in BOOLEAN :
          call = [fn |-> "mapClipToFields", clip |-> clip,
                  supertag |-> ClipSupertag(<<"b", "o", "o", "k", "m", "a", "r", "k">>, fields),
                  options |-> [formatUrlAsLink |-> formatUrlAsLink]]
    /\ ret = NULL
    /\ CacheIdle
    /\ StorageIdle

\* mapClipToFields(clip, analyzeSupertag(supertag), options)
MapClipToFieldsCall ==
    /\ call.fn = "mapClipToFields"
    /\ ret = NULL
    /\ ret' = Some(MapClipToFields(call.clip, AnalyzeSupertag(call.supertag), call.options))
    /\ UNCHANGED <<cacheVars, storeVars, call>>

NextMap == MapClipToFieldsCall

SpecMap == InitMap /\ [][NextMap]_vars

(***************************************************************************)
(* Properties of mapClipToFields (specification SpecMap)                   *)
(***************************************************************************)
Mapped == Val(ret).fields
Writes == Val(ret).writes

\* what analyzeSupertag says about the schema of the call
ClipAnalysis == AnalyzeSupertag(call.supertag)

\* an input value that is empty or absent
Blank(o) == o = NULL \/ Val(o) = <<>>

WrittenBy(slot) == {i \in 1..Len(Writes) : Writes[i].slot = slot}

Keys(m) == {m[i].key : i \in 1..Len(m)}

\* C15: a slot whose input value is empty or absent (url, selection,
\* author, description) puts no entry into the output map, with and
\* without formatUrlAsLink.
C15_BlankSkipped ==
    ret # NULL =>
      /\ Blank(call.clip.url) => WrittenBy("url") = {}
      /\ Blank(call.clip.selection) => WrittenBy("selection") = {}
      /\ Blank(call.clip.author) => WrittenBy("author") = {}
      /\ Blank(call.clip.description) => WrittenBy("description") = {}

\* C16: every key of mapClipToFields(clip, analyzeSupertag(schema), options)
\* is the name of a field of the schema: urlFieldName, an element of
\* textFields, authorFieldName or descriptionFieldName; a schema in which no
\* field matches a family gives the empty map.
C16_KeysAreSchemaFields ==
    ret # NULL =>
      /\ \A k \in Keys(Mapped) :
            /\ k \in Range(Names(call.supertag.fields))
            /\ \/ Some(k) = ClipAnalysis.urlFieldName
               \/ k \in Range(ClipAnalysis.textFields)
               \/ Some(k) = ClipAnalysis.authorFieldName
               \/ Some(k) = ClipAnalysis.descriptionFieldName
      /\ ClipAnalysis.score = 0 => Mapped = EmptyMap

\* the url, selection and author slots write three different fields of the schema
C16_Witness ==
    /\ ret # NULL
    /\ Cardinality(Keys(Mapped)) = 3
    /\ Len(Writes) = 3
    /\ Len(call.supertag.fields) = 3
    /\ ~Blank(call.clip.url)

HasNamed(textFields, preferred) ==
    \E i \in 1..Len(textFields) : ToLowerCase(textFields[i]) = ToLowerCase(preferred)

\* the text field the selection belongs to: the first name of the priority
\* list that some text field bears, else the first text field
RECURSIVE Expected(_, _)
Expected(textFields, priority) ==
    IF priority = <<>> THEN {textFields[1]}
    ELSE IF HasNamed(textFields, Head(priority))
         THEN {f \in Range(textFields) : ToLowerCase(f) = ToLowerCase(Head(priority))}
         ELSE Expected(textFields, Tail(priority))

\* C17: a non-empty selection and a schema with text fields: the selection
\* is written to exactly one text field, the one named Notes (in any case)
\* if there is one, else Summary, Highlight, Snapshot, else the first text
\* field, wherever the preferred field stands among the text fields; no
\* other text field receives the selection.
C17_BestTextField ==
    (ret # NULL /\ ~Blank(call.clip.selection) /\ ClipAnalysis.textFields # <<>>)
    => /\ Cardinality(WrittenBy("selection")) = 1
       /\ \A i \in WrittenBy("selection") :
             /\ Writes[i].value = call.clip.selection
             /\ Writes[i].name \in
                  Expected(ClipAnalysis.textFields,
                           <<<<"N", "o", "t", "e", "s">>, <<"S", "u", "m", "m", "a", "r", "y">>, <<"H", "i", "g", "h", "l", "i", "g", "h", "t">>, <<"S", "n", "a", "p", "s", "h", "o", "t">>>>)
             /\ \A f \in Range(ClipAnalysis.textFields) \ {Writes[i].name} :
                   MapGet(Mapped, f) # Some(call.clip.selection)

\* the preferred text field is the last of three text fields
C17_Witness ==
    /\ ret # NULL
    /\ ~Blank(call.clip.selection)
    /\ Len(ClipAnalysis.textFields) = 3
    /\ ToLowerCase(ClipAnalysis.textFields[1]) \notin
          {ToLowerCase(<<"N", "o", "t", "e", "s">>), ToLowerCase(<<"S", "u", "m", "m", "a", "r", "y">>)}
    /\ ToLowerCase(ClipAnalysis.textFields[2]) = ToLowerCase(<<"S", "u", "m", "m", "a", "r", "y">>)
    /\ \E i \in WrittenBy("selection") :
          /\ Writes[i].name = ClipAnalysis.textFields[3]
          /\ ToLowerCase(Writes[i].name) = ToLowerCase(<<"N", "o", "t", "e", "s">>)
    /\ MapGet(Mapped, ClipAnalysis.textFields[3]) = Some(call.clip.selection)

(***************************************************************************)
(* ai/types.ts: FIELD_ALIASES, findMatchingField, createSmartFieldMapping, *)
(* applySmartFieldMapping                                                  *)
(***************************************************************************)
MaxSmartFields == 2    \* number of fields of the schema a template is mapped to

\* template field name -> possible schema field names; order matters
FIELD_ALIASES ==
    <<[key |-> <<"U", "R", "L">>,
      value |-> <<<<"U", "R", "L">>,
                  <<"U", "r", "l">>,
                  <<"u", "r", "l">>,
                  <<"L", "i", "n", "k">>,
                  <<"l", "i", "n", "k">>,
                  <<"S", "o", "u", "r", "c", "e">>,
                  <<"s", "o", "u", "r", "c", "e">>,
                  <<"H", "r", "e", "f">>,
                  <<"h", "r", "e", "f">>>>],
     [key |-> <<"A", "u", "t", "h", "o", "r">>,
      value |-> <<<<"A", "u", "t", "h", "o", "r">>,
                  <<"a", "u", "t", "h", "o", "r">>,
                  <<"C", "r", "e", "a", "t", "o", "r">>,
                  <<"c", "r", "e", "a", "t", "o", "r">>,
                  <<"B", "y">>,
                  <<"b", "y">>,
                  <<"W", "r", "i", "t", "e", "r">>,
                  <<"w", "r", "i", "t", "e", "r">>>>],
     [key |-> <<"C", "h", "a", "n", "n", "e", "l">>,
      value |-> <<<<"C", "h", "a", "n", "n", "e", "l">>,
                  <<"c", "h", "a", "n", "n", "e", "l">>,
                  <<"A", "u", "t", "h", "o", "r">>,
                  <<"a", "u", "t", "h", "o", "r">>,
                  <<"C", "r", "e", "a", "t", "o", "r">>,
                  <<"c", "r", "e", "a", "t", "o", "r">>,
                  <<"B", "y">>,
                  <<"b", "y">>>>],
     [key |-> <<"D", "e", "s", "c", "r", "i", "p", "t", "i", "o", "n">>,
      value |-> <<<<"D", "e", "s", "c", "r", "i", "p", "t", "i", "o", "n">>,
                  <<"d", "e", "s", "c", "r", "i", "p", "t", "i", "o", "n">>,
                  <<"E", "x", "c", "e", "r", "p", "t">>,
                  <<"e", "x", "c", "e", "r", "p", "t">>,
                  <<"A", "b", "o", "u", "t">>,
                  <<"a", "b", "o", "u", "t">>,
                  <<"O", "v", "e", "r", "v", "i", "e", "w">>,
                  <<"o", "v", "e", "r", "v", "i", "e", "w">>>>],
     [key |-> <<"S", "u", "m", "m", "a", "r", "y">>,
      value |-> <<<<"S", "u", "m", "m", "a", "r", "y">>,
                  <<"s", "u", "m", "m", "a", "r", "y">>,
                  <<"A", "b", "s", "t", "r", "a", "c", "t">>,
                  <<"a", "b", "s", "t", "r", "a", "c", "t">>,
                  <<"S", "y", "n", "o", "p", "s", "i", "s">>,
                  <<"s", "y", "n", "o", "p", "s", "i", "s">>,
                  <<"T", "L", ";", "D", "R">>,
                  <<"t", "l", "d", "r">>,
                  <<"D", "e", "s", "c", "r", "i", "p", "t", "i", "o", "n">>,
                  <<"d", "e", "s", "c", "r", "i", "p", "t", "i", "o", "n">>>>],
     [key |-> <<"T", "i", "t", "l", "e">>,
      value |-> <<<<"T", "i", "t", "l", "e">>,
                  <<"t", "i", "t", "l", "e">>,
                  <<"N", "a", "m", "e">>,
                  <<"n", "a", "m", "e">>,
                  <<"H", "e", "a", "d", "l", "i", "n", "e">>,
                  <<"h", "e", "a", "d", "l", "i", "n", "e">>>>],
     [key |-> <<"C", "l", "i", "p", "p", "e", "d">>,
      value |-> <<<<"C", "l", "i", "p", "p", "e", "d">>,
                  <<"c", "l", "i", "p", "p", "e", "d">>,
                  <<"D", "a", "t", "e">>,
                  <<"d", "a", "t", "e">>,
                  <<"A", "d", "d", "e", "d">>,
                  <<"a", "d", "d", "e", "d">>,
                  <<"C", "r", "e", "a", "t", "e", "d">>,
                  <<"c", "r", "e", "a", "t", "e", "d">>,
                  <<"S", "a", "v", "e", "d">>,
                  <<"s", "a", "v", "e", "d">>>>],
     [key |-> <<"R", "e", "a", "d", "i", "n", "g", " ", "T", "i", "m", "e">>,
      value |-> <<<<"R", "e", "a", "d", "i", "n", "g", " ", "T", "i", "m", "e">>,
                  <<"r", "e", "a", "d", "i", "n", "g", " ", "t", "i", "m", "e">>,
                  <<"R", "e", "a", "d", "T", "i", "m", "e">>,
                  <<"r", "e", "a", "d", "t", "i", "m", "e">>,
                  <<"D", "u", "r", "a", "t", "i", "o", "n">>,
                  <<"d", "u", "r", "a", "t", "i", "o", "n">>,
                  <<"L", "e", "n", "g", "t", "h">>,
                  <<"l", "e", "n", "g", "t", "h">>,
                  <<"T", "i", "m", "e">>,
                  <<"t", "i", "m", "e">>>>],
     [key |-> <<"S", "i", "t", "e">>,
      value |-> <<<<"S", "i", "t", "e">>,
                  <<"s", "i", "t", "e">>,
                  <<"S", "o", "u", "r", "c", "e">>,
                  <<"s", "o", "u", "r", "c", "e">>,
                  <<"W", "e", "b", "s", "i", "t", "e">>,
                  <<"w", "e", "b", "s", "i", "t", "e">>,
                  <<"D", "o", "m", "a", "i", "n">>,
                  <<"d", "o", "m", "a", "i", "n">>>>],
     [key |-> <<"S", "u", "b", "r", "e", "d", "d", "i", "t">>,
      value |-> <<<<"S", "u", "b", "r", "e", "d", "d", "i", "t">>,
                  <<"s", "u", "b", "r", "e", "d", "d", "i", "t">>,
                  <<"C", "o", "m", "m", "u", "n", "i", "t", "y">>,
                  <<"c", "o", "m", "m", "u", "n", "i", "t", "y">>,
                  <<"F", "o", "r", "u", "m">>,
                  <<"f", "o", "r", "u", "m">>,
                  <<"S", "i", "t", "e">>,
                  <<"s", "i", "t", "e">>>>]>>

\* FIELD_ALIASES[templateFieldName] || [templateFieldName]
AliasesOf(templateFieldName) ==
    LET a == MapGet(FIELD_ALIASES, templateFieldName)
    IN IF a # NULL THEN Val(a) ELSE <<templateFieldName>>

\* schemaFields.find(p): the first field that satisfies p, by position
FirstOf(schemaFields, hits) ==
    IF hits = {} THEN NULL ELSE Some(schemaFields[Min(hits)].name)

\* f.name.toLowerCase() === alias.toLowerCase()
ExactMatch(schemaFields, alias) ==
    FirstOf(schemaFields,
            {i \in 1..Len(schemaFields) :
                ToLowerCase(schemaFields[i].name) = ToLowerCase(alias)})

\* field name contains alias or vice versa
Contained(a, b) == Includes(ToLowerCase(a), ToLowerCase(b)) \/ Includes(ToLowerCase(b), ToLowerCase(a))

PartialMatch(schemaFields, alias) ==
    FirstOf(schemaFields,
            {i \in 1..Len(schemaFields) : Contained(schemaFields[i].name, alias)})

\* the fields are walked first, the aliases second
FirstExactByField(aliases, schemaFields) ==
    FirstOf(schemaFields,
            {i \in 1..Len(schemaFields) :
                \E j \in 1..Len(aliases) :
                   ToLowerCase(schemaFields[i].name) = ToLowerCase(aliases[j])})

\* try each alias
RECURSIVE FirstExact(_, _)
FirstExact(aliases, schemaFields) ==
    IF aliases = <<>> THEN NULL
    ELSE LET match == ExactMatch(schemaFields, Head(aliases))
         IN IF match # NULL THEN match ELSE FirstExact(Tail(aliases), schemaFields)

\* only the template field name itself is tried
FirstPartialByName(aliases, schemaFields) ==
    IF aliases = <<>> THEN NULL ELSE PartialMatch(schemaFields, Head(aliases))

\* try partial matching as fallback
RECURSIVE FirstPartial(_, _)
FirstPartial(aliases, schemaFields) ==
    IF aliases = <<>> THEN NULL
    ELSE LET match == PartialMatch(schemaFields, Head(aliases))
         IN IF match # NULL THEN match ELSE FirstPartial(Tail(aliases), schemaFields)

FindMatchingField(templateFieldName, schemaFields) ==
    LET aliases == AliasesOf(templateFieldName)
        exact == FirstExact(aliases, schemaFields)
    IN IF exact # NULL THEN exact ELSE FirstPartial(aliases, schemaFields)

RECURSIVE MapTemplateFields(_, _, _)
MapTemplateFields(acc, templateFields, supertag) ==
    IF templateFields = <<>> THEN acc
    ELSE LET templateField == Head(templateFields)
             schemaField == FindMatchingField(templateField, supertag.fields)
             next == IF Truthy(schemaField)
                     THEN [acc EXCEPT !.fieldMap = MapSet(@, templateField, Val(schemaField))]
                     ELSE [fieldMap |-> MapSet(acc.fieldMap, templateField, templateField),
                           unmappedFields |-> Append(acc.unmappedFields, templateField)]
         IN MapTemplateFields(next, Tail(templateFields), supertag)

CreateSmartFieldMapping(templateFields, supertag) ==
    LET m == MapTemplateFields([fieldMap |-> EmptyMap, unmappedFields |-> <<>>],
                               templateFields, supertag)
    IN [fieldMap |-> m.fieldMap, unmappedFields |-> m.unmappedFields,
        isComplete |-> (Len(m.unmappedFields) = 0)]

\* mapping.fieldMap[templateField] || templateField
MappedName(mapping, templateField) ==
    LET schemaField == MapGet(mapping.fieldMap, templateField)
    IN IF Truthy(schemaField) THEN Val(schemaField) ELSE templateField

\* for (const [templateField, value] of Object.entries(fields))
RECURSIVE ApplyEntries(_, _, _)
ApplyEntries(result, entries, mapping) ==
    IF entries = <<>> THEN result
    ELSE ApplyEntries(MapSet(result, MappedName(mapping, Head(entries).key), Head(entries).value),
                      Tail(entries), mapping)

ApplySmartFieldMapping(fields, mapping) == ApplyEntries(EmptyMap, fields, mapping)

\* template field names: with aliases, sharing aliases, and without aliases
TemplateFieldNames ==
    {<<"U", "R", "L">>, <<"A", "u", "t", "h", "o", "r">>, <<"C", "h", "a", "n", "n", "e", "l">>, <<"D", "e", "s", "c", "r", "i", "p", "t", "i", "o", "n">>, <<"S", "u", "m", "m", "a", "r", "y">>, <<"R", "a", "t", "i", "n", "g">>}

\* the field names of a template: no name twice
TemplateFieldChoices ==
    {<<>>} \cup {<<a>> : a \in TemplateFieldNames}
           \cup {p \in TemplateFieldNames \X TemplateFieldNames : p[1] # p[2]}

SmartFieldChoices ==
    {ClipField(<<"S", "o", "u", "r", "c", "e">>, "plain"),
     ClipField(<<"L", "i", "n", "k">>, "plain"),
     ClipField(<<"u", "r", "l">>, "plain"),
     ClipField(<<"A", "u", "t", "h", "o", "r">>, "plain"),
     ClipField(<<"D", "e", "s", "c", "r", "i", "p", "t", "i", "o", "n">>, "plain"),
     ClipField(<<"B", "a", "c", "k", "l", "i", "n", "k", "s">>, "plain"),
     ClipField(<<"D", "e", "s", "c">>, "plain"),
     ClipField(<<"S", "t", "a", "t", "u", "s">>, "plain")}

\* the rendered fields of the template: a value for every field name
Rendered(templateFields) ==
    [i \in 1..Len(templateFields) |->
        [key |-> templateFields[i], value |-> IF i = 1 THEN <<"1">> ELSE <<"2">>]]

InitSmart ==
    /\ \E templateFields \in TemplateFieldChoices,
          fields \in ListsUpTo(SmartFieldChoices, MaxSmartFields) :
          call = [fn |-> "createSmartFieldMapping",
                  templateFields |-> templateFields,
                  fields |-> Rendered(templateFields),
                  supertag |-> ClipSupertag(<<"b", "o", "o", "k", "m", "a", "r", "k">>, fields)]
    /\ ret = NULL
    /\ CacheIdle
    /\ StorageIdle

\* const mapping = createSmartFieldMapping(templateFieldNames, supertagSchema)
CreateSmartFieldMappingCall ==
    /\ call.fn = "createSmartFieldMapping"
    /\ ret = NULL
    /\ ret' = Some([mapping |-> CreateSmartFieldMapping(call.templateFields, call.supertag),
                    result |-> NULL])
    /\ UNCHANGED <<cacheVars, storeVars, call>>

\* fields = applySmartFieldMapping(fields, mapping)
ApplySmartFieldMappingCall ==
    /\ call.fn = "createSmartFieldMapping"
    /\ ret # NULL
    /\ Val(ret).result = NULL
    /\ ret' = Some([Val(ret) EXCEPT
                      !.result = Some(ApplySmartFieldMapping(call.fields, Val(ret).mapping))])
    /\ UNCHANGED <<cacheVars, storeVars, call>>

NextSmart == CreateSmartFieldMappingCall \/ ApplySmartFieldMappingCall

SpecSmart == InitSmart /\ [][NextSmart]_vars

(***************************************************************************)
(* Properties of the smart field mapping (specification SpecSmart)         *)
(***************************************************************************)
Mapping == Val(ret).mapping
SmartFields == call.supertag.fields
TemplateFields == Range(call.templateFields)

\* the schema field a template field name is mapped to
FieldMapOf(n) == Val(MapGet(Mapping.fieldMap, n))

\* positions in the alias list of n of the aliases that equal some schema
\* field name when case is ignored
ExactAliases(n) ==
    {j \in 1..Len(AliasesOf(n)) :
        \E i \in 1..Len(SmartFields) :
           ToLowerCase(SmartFields[i].name) = ToLowerCase(AliasesOf(n)[j])}

\* ... of the aliases that contain, or are contained in, some schema field name
PartialAliases(n) ==
    {j \in 1..Len(AliasesOf(n)) :
        \E i \in 1..Len(SmartFields) : Contained(SmartFields[i].name, AliasesOf(n)[j])}

\* schema field names that contain, or are contained in, the name n itself
NameContained(n) == {f \in Range(Names(SmartFields)) : Contained(f, n)}

Reverse(q) == [i \in 1..Len(q) |-> q[Len(q) + 1 - i]]

ReversedSchema == ClipSupertag(call.supertag.name, Reverse(SmartFields))

\* schema field names that equal some alias of n when case is ignored
ExactFields(n) ==
    {f \in Range(Names(SmartFields)) :
        \E j \in 1..Len(AliasesOf(n)) : ToLowerCase(f) = ToLowerCase(AliasesOf(n)[j])}

\* C18: when several schema fields match aliases of an abstract name, the
\* chosen field is the one that matches the earliest alias of the table,
\* whatever the order of the schema's fields: 'URL' with fields 'Source' and
\* 'Link' gives 'Link'; the same arguments give the same result.
C18_AliasPrecedence ==
    ret # NULL =>
      \A n \in TemplateFields :
         ExactAliases(n) # {} =>
           /\ FieldMapOf(n) \in Range(Names(SmartFields))
           /\ ToLowerCase(FieldMapOf(n)) = ToLowerCase(AliasesOf(n)[Min(ExactAliases(n))])
           /\ FieldMapOf(n) =
                Val(MapGet(CreateSmartFieldMapping(call.templateFields, ReversedSchema).fieldMap, n))
           /\ (n = <<"U", "R", "L">> /\ ExactFields(n) = {<<"S", "o", "u", "r", "c", "e">>, <<"L", "i", "n", "k">>}) => FieldMapOf(n) = <<"L", "i", "n", "k">>

\* 'URL' against a schema whose first field is 'Source' and second 'Link'
C18_Witness ==
    /\ ret # NULL
    /\ <<"U", "R", "L">> \in TemplateFields
    /\ Names(SmartFields) = <<<<"S", "o", "u", "r", "c", "e">>, <<"L", "i", "n", "k">>>>
    /\ FieldMapOf(<<"U", "R", "L">>) = <<"L", "i", "n", "k">>

Unmapped == Range(Mapping.unmappedFields)

\* C19: three stages.  (1) the first alias in table order that equals a
\* schema field name, case ignored; (2) only when no alias matches exactly,
\* containment in either direction between the abstract name and a schema
\* field name; (3) otherwise the abstract name itself, recorded in
\* unmappedFields.  fieldMap has an entry for every abstract name, a name is
\* in unmappedFields iff stages 1 and 2 found nothing, and isComplete holds
\* iff unmappedFields is empty.
C19_ThreeStages ==
    ret # NULL =>
      /\ \A n \in TemplateFields :
            /\ MapHas(Mapping.fieldMap, n)
            /\ IF ExactAliases(n) # {}
               THEN /\ ToLowerCase(FieldMapOf(n)) = ToLowerCase(AliasesOf(n)[Min(ExactAliases(n))])
                    /\ n \notin Unmapped
               ELSE IF NameContained(n) # {}
               THEN /\ FieldMapOf(n) \in NameContained(n)
                    /\ n \notin Unmapped
               ELSE /\ FieldMapOf(n) = n
                    /\ n \in Unmapped
      /\ Mapping.isComplete = (Mapping.unmappedFields = <<>>)

\* C19 (amended): stage (2) takes the first alias in table order (the
\* abstract name itself when the table has no entry) that contains, or is
\* contained in, a schema field name, and the first such field.
C19_ThreeStagesByAlias ==
    ret # NULL =>
      /\ \A n \in TemplateFields :
            /\ MapHas(Mapping.fieldMap, n)
            /\ IF ExactAliases(n) # {}
               THEN /\ ToLowerCase(FieldMapOf(n)) = ToLowerCase(AliasesOf(n)[Min(ExactAliases(n))])
                    /\ n \notin Unmapped
               ELSE IF PartialAliases(n) # {}
               THEN /\ Some(FieldMapOf(n)) =
                         PartialMatch(SmartFields, AliasesOf(n)[Min(PartialAliases(n))])
                    /\ n \notin Unmapped
               ELSE /\ FieldMapOf(n) = n
                    /\ n \in Unmapped
      /\ Mapping.isComplete = (Mapping.unmappedFields = <<>>)

\* no alias equals a field, the abstract name is in no containment with a
\* field, and a later alias is contained in one; a second name stays unmapped
C19_Witness ==
    /\ ret # NULL
    /\ \E n \in TemplateFields :
          /\ ExactAliases(n) = {}
          /\ NameContained(n) = {}
          /\ PartialAliases(n) # {}
          /\ FieldMapOf(n) \in Range(Names(SmartFields))
          /\ n \notin Unmapped
    /\ \E n \in TemplateFields : n \in Unmapped /\ FieldMapOf(n) = n
    /\ ~Mapping.isComplete

Applied == Val(Val(ret).result)

\* C20: applySmartFieldMapping drops no value: every input pair (name,
\* value) is in the output as (fieldMap[name] or name, value), and the
\* output has as many entries as the input, also when two template names
\* map to the same schema field.
C20_NoValueDropped ==
    (ret # NULL /\ Val(ret).result # NULL) =>
      /\ \A i \in 1..Len(call.fields) :
            MapGet(Applied, MappedName(Mapping, call.fields[i].key))
              = Some(call.fields[i].value)
      /\ Len(Applied) = Len(call.fields)

\* values held by the output map
MappedValues == {Mapped[i].value : i \in 1..Len(Mapped)}

\* C30: with a non-empty selection and a non-empty description, a text
\* field and a description field, the output map holds both the selection
\* and the description: the description does not replace the selection,
\* also when the best text field is the description field.
C30_SlotsKeptApart ==
    ( /\ ret # NULL
      /\ ~Blank(call.clip.selection)
      /\ ~Blank(call.clip.description)
      /\ ClipAnalysis.textFields # <<>>
      /\ Truthy(ClipAnalysis.descriptionFieldName) )
    => /\ call.clip.selection \in MappedValues
       /\ call.clip.description \in MappedValues

(***************************************************************************)
(* Depth annotation and lookup of parents (specification SpecResolve)      *)
(***************************************************************************)
IdsNamed(n) == {id \in TagIds : HasTag(id) /\ TagById(id).name = n}

\* C29: the depth of every field of a resolved schema is the length of the
\* shortest extends-path from the requested tag to the tag its
\* originTagName names (0 for own fields, 1 for those of a direct parent),
\* also when that tag is reached by several paths of different length; so
\* the fields of a direct parent pass the node form's filter depth <= 2.
C29_DepthIsShortestPath ==
    Resolved =>
        \A k \in 1..Len(ResultFields) :
            /\ \E id \in IdsNamed(ResultFields[k].originTagName) :
                  ResultFields[k].depth = Dist(RootId, id)
            /\ (\E id \in IdsNamed(ResultFields[k].originTagName) : id \in ParentIds(RootId))
                  => ResultFields[k].depth <= 2

(***************************************************************************)
(* Snapshots in which tags share a name (specification SpecSameName): the  *)
(* ids differ, every tag declares one field and has at most one parent.    *)
(***************************************************************************)
\* a stored tag under a name of its own
NamedSupertag(id, name, names, ext) ==
    [CachedSupertag(id, names, ext) EXCEPT !.name = name]

NamedRegistry(nameOf, ext, fl) ==
    [i \in 1..Len(TagOrder) |->
        NamedSupertag(TagOrder[i], nameOf[TagOrder[i]],
                      <<fl[TagOrder[i]]>>, ext[TagOrder[i]])]

\* the first tag is called A, the others A, B or C
NameChoices == {n \in [TagIds -> {"A", "B", "C"}] : n["t1"] = "A"}

\* no parent or one parent; the last tag is a root
OneParentChoices ==
    {e \in [TagIds -> {<<>>} \cup {<<x>> : x \in TagIds}] : e["t4"] = <<>>}

OneFieldChoices == [TagIds -> FieldNames]

InitSameName ==
    /\ \E n \in NameChoices, e \in OneParentChoices, l \in OneFieldChoices :
          file = [exists |-> TRUE, mtime |-> 1,
                  content |-> JsonContent(NamedRegistry(n, e, l))]
    /\ clock = 1
    /\ cache = NULL
    /\ lastMtime = NULL
    /\ lastOp = NoOp
    /\ prev = NoCall
    /\ call = NoArgs
    /\ ret = NULL
    /\ StorageIdle

NextSameName == GetSupertagCall("A", FALSE)

SpecSameName == InitSameName /\ [][NextSameName]_vars

OwnNames(id) == Range(Names(TagById(id).fields))

\* C28: every id in the requested tag's extends that is the id of a tag of
\* the parsed snapshot contributes that parent's fields, those not shadowed
\* by name, to the resolved schema, also when two tags of the snapshot
\* bear the same name.
C28_ParentsFoundById ==
    Resolved =>
        \A p \in ParentIds(RootId) :
            \A i \in 1..Len(TagById(p).fields) :
                TagById(p).fields[i].name \notin OwnNames(RootId)
                    => TagById(p).fields[i].attributeId \in Range(AttributeIds(ResultFields))

(***************************************************************************)
(* refreshIfNeeded against a concurrent writer (specification SpecRace):   *)
(* the sync process may act between existsSync, statSync and readFileSync. *)
(***************************************************************************)
\* position of the call and the file as each file-system call saw it
Position(at, fe, fs, fr) ==
    [fn |-> "refreshIfNeeded", at |-> at, fe |-> fe, fs |-> fs, fr |-> fr]

\* the method returns: its effect on cache and lastMtime
Return(fe, fs, fr) ==
    LET rf == RefreshIfNeeded(cache, lastMtime, fe, fs, fr)
    IN /\ cache' = rf.cache
       /\ lastMtime' = rf.lastMtime
       /\ call' = Position("idle", fe, fs, fr)

\* if (!existsSync(this.schemaPath)) { clear; return }
ExistsSyncStep ==
    /\ call.at = "idle"
    /\ IF file.exists
       THEN /\ call' = Position("statSync", file, file, file)
            /\ UNCHANGED <<cache, lastMtime>>
       ELSE Return(file, file, file)
    /\ UNCHANGED <<file, clock, lastOp, prev, ret, storeVars>>

\* const stats = statSync(this.schemaPath); decide whether to load
StatSyncStep ==
    /\ call.at = "statSync"
    /\ IF file.exists /\ NeedsLoad(cache, lastMtime, file.mtime)
       THEN /\ call' = Position("readFileSync", call.fe, file, file)
            /\ UNCHANGED <<cache, lastMtime>>
       ELSE Return(call.fe, file, file)
    /\ UNCHANGED <<file, clock, lastOp, prev, ret, storeVars>>

\* this.loadSchemas(); this.lastMtime = currentMtime
ReadFileSyncStep ==
    /\ call.at = "readFileSync"
    /\ Return(call.fe, call.fs, file)
    /\ UNCHANGED <<file, clock, lastOp, prev, ret, storeVars>>

InitRace ==
    /\ file = NoFile
    /\ clock = 0
    /\ cache = NULL
    /\ lastMtime = NULL
    /\ lastOp = NoOp
    /\ prev = NoCall
    /\ call = Position("idle", NoFile, NoFile, NoFile)
    /\ ret = NULL
    /\ StorageIdle

NextRace ==
    \/ ExistsSyncStep
    \/ StatSyncStep
    \/ ReadFileSyncStep
    \/ \E c \in Contents : ReplaceSnapshot(c)
    \/ \E tags \in Pool : BeginWrite(tags)
    \/ \E tick \in {0, 1} : FinishWrite(tick)
    \/ DeleteSnapshot

SpecRace == InitRace /\ [][NextRace]_vars

\* C26: whenever the map is present and lastMtime is the file's current
\* modification time, the map holds what the file holds now: a newer mtime
\* is never recorded together with older content, whatever the writer does
\* between the existence check, the stat and the read.
C26_MtimeNotAheadOfContent ==
    (cache # NULL /\ file.exists /\ lastMtime = Some(file.mtime))
    => cache = FreshCache(file)

\* the snapshot was replaced between statSync and readFileSync: the map
\* holds the new content under the old mtime
C26_Witness ==
    /\ call.at = "idle"
    /\ ValidFile(call.fs)
    /\ ValidFile(call.fr)
    /\ call.fs.mtime # call.fr.mtime
    /\ call.fs.content # call.fr.content
    /\ cache = FreshCache(call.fr)
    /\ lastMtime = Some(call.fs.mtime)
    /\ file = call.fr

(***************************************************************************)
(* WebClipStorage (storage.ts): templates, domain preferences and recent   *)
(* clips, each kept as one JSON string under a key of the host's           *)
(* key-value store.  Every method awaits getItem, computes, and awaits     *)
(* setItem or removeItem.                                                  *)
(***************************************************************************)

\* a stored string: JSON.stringify(v), or text that JSON.parse rejects
JSONStringify(v) == [kind |-> "json", value |-> v]
UnparsableText == [kind |-> "text", value |-> <<"{">>]
EmptyText == [kind |-> "text", value |-> <<>>]

\* if (!data) return []; try { return JSON.parse(data) } catch { return [] }
ParseOr(data, fallback) ==
    IF data = NULL \/ Val(data) = EmptyText THEN fallback
    ELSE IF Val(data).kind = "json" THEN Val(data).value
    ELSE fallback

GetTemplates(st) == ParseOr(st.templates, <<>>)

\* templates.findIndex((t) => t.id === id): 0 when there is none
FindIndex(templates, id) ==
    IF \E i \in 1..Len(templates) : templates[i].id = id
    THEN Min({i \in 1..Len(templates) : templates[i].id = id})
    ELSE 0

SetItem(st, key, value) == [st EXCEPT ![key] = Some(JSONStringify(value))]

SaveTemplateAlwaysPush(st, template) ==
    SetItem(st, "templates", Append(GetTemplates(st), template))

SaveTemplate(st, template) ==
    LET templates == GetTemplates(st)
        index     == FindIndex(templates, template.id)
    IN  SetItem(st, "templates",
                IF index >= 1 THEN [templates EXCEPT ![index] = template]
                ELSE Append(templates, template))

\* templates.filter((t) => t.id !== id)
DeleteTemplate(st, id) ==
    SetItem(st, "templates", SelectSeq(GetTemplates(st), LAMBDA t : t.id # id))

TemplateIds == {"x", "y", "z"}
TemplateChoices == {[id |-> i, name |-> n] : i \in TemplateIds, n \in {"v1", "v2"}}
StoredAtStart == {NULL, Some(EmptyText), Some(UnparsableText), Some(JSONStringify(<<>>))}

InitTemplates ==
    /\ \E data \in StoredAtStart : storage = [NoItems EXCEPT !.templates = data]
    /\ added = <<>>
    /\ command = NoCommand
    /\ call = NoArgs
    /\ ret = NULL
    /\ CacheIdle

GetTemplatesCall ==
    /\ call' = [fn |-> "getTemplates"]
    /\ ret' = Some(GetTemplates(storage))
    /\ UNCHANGED <<cacheVars, storeVars>>

SaveTemplateCall(template) ==
    /\ storage' = SaveTemplate(storage, template)
    /\ call' = [fn |-> "saveTemplate", template |-> template]
    /\ ret' = NULL
    /\ UNCHANGED <<cacheVars, added, command>>

DeleteTemplateCall(id) ==
    /\ storage' = DeleteTemplate(storage, id)
    /\ call' = [fn |-> "deleteTemplate", id |-> id]
    /\ ret' = NULL
    /\ UNCHANGED <<cacheVars, added, command>>

NextTemplates ==
    \/ GetTemplatesCall
    \/ \E template \in TemplateChoices : SaveTemplateCall(template)
    \/ \E id \in TemplateIds : DeleteTemplateCall(id)

SpecTemplates == InitTemplates /\ [][NextTemplates]_vars

StoredTemplates == GetTemplates(storage)
Others(templates, id) == SelectSeq(templates, LAMBDA t : t.id # id)
AtId(templates, id) == {i \in 1..Len(templates) : templates[i].id = id}

\* saveTemplate(t): t is stored, at the place of the template with its id
\* when there was one, and every other template is as it was
Saved(before, after, t) ==
    /\ \E i \in 1..Len(after) : after[i] = t
    /\ AtId(before, t.id) # {} => AtId(after, t.id) = AtId(before, t.id)
    /\ Others(after, t.id) = Others(before, t.id)

\* deleteTemplate(id): no template has the id, every other one is as it was
Deleted(before, after, id) ==
    /\ AtId(after, id) = {}
    /\ after = Others(before, id)

\* C25: under sequential saveTemplate and deleteTemplate calls the store
\* holds at most one template per id; saveTemplate(t) stores t, in place of
\* the stored template with the same id when there is one, and leaves the
\* others unchanged; deleteTemplate(id) leaves no template with that id and
\* the others unchanged; with nothing stored or unparsable stored data
\* getTemplates returns the empty list.
C25_TemplatesById ==
    /\ [](\A i, j \in 1..Len(StoredTemplates) :
             StoredTemplates[i].id = StoredTemplates[j].id => i = j)
    /\ []((storage.templates \in {NULL, Some(UnparsableText)}) => StoredTemplates = <<>>)
    /\ []((call.fn = "getTemplates") => ret = Some(StoredTemplates))
    /\ [][ /\ call'.fn = "saveTemplate"
               => Saved(StoredTemplates, GetTemplates(storage'), call'.template)
           /\ call'.fn = "deleteTemplate"
               => Deleted(StoredTemplates, GetTemplates(storage'), call'.id) ]_vars

\* a template was saved over the stored one with its id, between two others
C25_Witness ==
    /\ call.fn = "saveTemplate"
    /\ call.template.id = "y"
    /\ Len(StoredTemplates) = 3
    /\ StoredTemplates[1].id = "x"
    /\ StoredTemplates[2] = call.template
    /\ StoredTemplates[3].id = "z"

(***************************************************************************)
(* WebClipStorage: recent clips                                            *)
(***************************************************************************)
MAX_RECENT_CLIPS == 10

MaxAdds == 11          \* addRecentClip calls between two clearRecentClips

\* a clip's clippedAt is written as the instant its ISO string denotes
GetTime(clippedAt) == clippedAt

\* Array.prototype.sort with (a, b) => getTime(b) - getTime(a): stable, so a
\* clip goes behind the clips that are not older
InsertClip(sorted, clip) ==
    LET k == Cardinality({i \in 1..Len(sorted) :
                             GetTime(sorted[i].clippedAt) >= GetTime(clip.clippedAt)})
    IN  SubSeq(sorted, 1, k) \o <<clip>> \o SubSeq(sorted, k + 1, Len(sorted))

RECURSIVE SortByClippedAt(_)
SortByClippedAt(clips) ==
    IF clips = <<>> THEN <<>>
    ELSE InsertClip(SortByClippedAt(SubSeq(clips, 1, Len(clips) - 1)), clips[Len(clips)])

GetRecentClips(st) == SortByClippedAt(ParseOr(st.recentClips, <<>>))

\* clips.unshift(clip); clips.slice(0, MAX_RECENT_CLIPS)
AddRecentClip(st, clip) ==
    SetItem(st, "recentClips", Slice(<<clip>> \o GetRecentClips(st), MAX_RECENT_CLIPS))

\* storage.removeItem
ClearRecentClips(st) == [st EXCEPT !.recentClips = NULL]

RecentClipChoices ==
    {[url |-> <<"u">>, clippedAt |-> t] : t \in {1, 2, 3}}

InitRecent ==
    /\ \E data \in {NULL, Some(UnparsableText)} :
          storage = [NoItems EXCEPT !.recentClips = data]
    /\ added = <<>>
    /\ command = NoCommand
    /\ call = NoArgs
    /\ ret = NULL
    /\ CacheIdle

GetRecentClipsCall ==
    /\ call' = [fn |-> "getRecentClips"]
    /\ ret' = Some(GetRecentClips(storage))
    /\ UNCHANGED <<cacheVars, storeVars>>

AddRecentClipCall(clip) ==
    /\ Len(added) < MaxAdds
    /\ storage' = AddRecentClip(storage, clip)
    /\ added' = Append(added, clip)
    /\ call' = [fn |-> "addRecentClip"]
    /\ ret' = NULL
    /\ UNCHANGED <<cacheVars, command>>

ClearRecentClipsCall ==
    /\ storage' = ClearRecentClips(storage)
    /\ added' = <<>>
    /\ call' = [fn |-> "clearRecentClips"]
    /\ ret' = NULL
    /\ UNCHANGED <<cacheVars, command>>

NextRecent ==
    \/ GetRecentClipsCall
    \/ \E clip \in RecentClipChoices : AddRecentClipCall(clip)
    \/ ClearRecentClipsCall

SpecRecent == InitRecent /\ [][NextRecent]_vars

\* the most recent clips by clippedAt of those added since the last clear
MostRecentAdded == Slice(SortByClippedAt(added), MAX_RECENT_CLIPS)
ClippedAts(clips) == [i \in 1..Len(clips) |-> clips[i].clippedAt]

\* C24: getRecentClips returns at most 10 clips, ordered by clippedAt
\* descending; they are the most recent clips by clippedAt among those added
\* since the last clearRecentClips, and after a clear the list is empty.
C24_MostRecentByClippedAt ==
    call.fn = "getRecentClips" =>
        /\ Len(Val(ret)) <= MAX_RECENT_CLIPS
        /\ \A i, j \in 1..Len(Val(ret)) :
              i < j => Val(ret)[i].clippedAt >= Val(ret)[j].clippedAt
        /\ ClippedAts(Val(ret)) = ClippedAts(MostRecentAdded)
        /\ added = <<>> => Val(ret) = <<>>

(***************************************************************************)
(* WebClipStorage: two calls under way at once.  A call gives up control   *)
(* at each await, so another call may run between its getItem and its      *)
(* setItem; the class takes no lock.                                       *)
(***************************************************************************)
GetAllDomainPreferences(st) == ParseOr(st.domainPrefs, EmptyMap)

\* prefs[pref.domain] = pref
SaveDomainPreference(st, pref) ==
    SetItem(st, "domainPrefs", MapSet(GetAllDomainPreferences(st), pref.domain, pref))

DomainPreferenceChoices ==
    {[domain |-> dm, supertag |-> s] : dm \in {"a.com", "b.org"}, s \in {"v1", "v2"}}

Started(fn, key, arg) == [fn |-> fn, key |-> key, arg |-> arg, at |-> "getItem", data |-> NULL]

\* pairs of calls the claim is about: templates with different ids, preferences
\* for different domains, any two clips
CallPairs ==
    {<<Started("saveTemplate", "templates", p[1]), Started("saveTemplate", "templates", p[2])>> :
        p \in {q \in TemplateChoices \X TemplateChoices : q[1].id # q[2].id}}
    \cup
    {<<Started("saveDomainPreference", "domainPrefs", p[1]),
       Started("saveDomainPreference", "domainPrefs", p[2])>> :
        p \in {q \in DomainPreferenceChoices \X DomainPreferenceChoices :
                  q[1].domain # q[2].domain}}
    \cup
    {<<Started("addRecentClip", "recentClips", p[1]), Started("addRecentClip", "recentClips", p[2])>> :
        p \in RecentClipChoices \X RecentClipChoices}

InitConcurrent ==
    /\ storage = NoItems
    /\ \E calls \in CallPairs :
          /\ call = [fn |-> "Promise.all", calls |-> calls]
          /\ added = IF calls[1].fn = "addRecentClip" THEN <<calls[1].arg, calls[2].arg>> ELSE <<>>
    /\ command = NoCommand
    /\ ret = NULL
    /\ CacheIdle

\* what the method writes, computed from the string its getItem returned
Written(c) ==
    LET seen == [NoItems EXCEPT ![c.key] = c.data]
    IN  CASE c.fn = "saveTemplate"         -> SaveTemplate(seen, c.arg)[c.key]
          [] c.fn = "saveDomainPreference" -> SaveDomainPreference(seen, c.arg)[c.key]
          [] c.fn = "addRecentClip"        -> AddRecentClip(seen, c.arg)[c.key]

\* await this.storage.getItem(key)
GetItemStep(i) ==
    /\ call.calls[i].at = "getItem"
    /\ call' = [call EXCEPT !.calls[i].at = "setItem", !.calls[i].data = storage[call.calls[i].key]]
    /\ UNCHANGED <<cacheVars, storeVars, ret>>

\* await this.storage.setItem(key, JSON.stringify(...))
SetItemStep(i) ==
    /\ call.calls[i].at = "setItem"
    /\ storage' = [storage EXCEPT ![call.calls[i].key] = Written(call.calls[i])]
    /\ call' = [call EXCEPT !.calls[i].at = "done"]
    /\ UNCHANGED <<cacheVars, added, command, ret>>

NextConcurrent ==
    \E i \in 1..2 :
        \/ GetItemStep(i)
        \/ SetItemStep(i)

SpecConcurrent == InitConcurrent /\ [][NextConcurrent]_vars

Occurrences(q, x) == Cardinality({i \in 1..Len(q) : q[i] = x})

\* the entry of call c is in the store
Present(c) ==
    CASE c.fn = "saveTemplate"         -> Occurrences(GetTemplates(storage), c.arg) >= 1
      [] c.fn = "saveDomainPreference" ->
             MapGet(GetAllDomainPreferences(storage), c.arg.domain) = Some(c.arg)
      [] c.fn = "addRecentClip"        ->
             Occurrences(GetRecentClips(storage), c.arg) >= Occurrences(added, c.arg)

\* C27: when two saveTemplate calls for different ids, two
\* saveDomainPreference calls for different domains, or two addRecentClip
\* calls interleave at their awaits, the entries of both calls are in the
\* store once both have completed.
C27_NoLostUpdate ==
    (\A i \in 1..2 : call.calls[i].at = "done") => \A i \in 1..2 : Present(call.calls[i])

(***************************************************************************)
(* buildTanaJSON (capture-tana.tsx): the text of the form's content field  *)
(* becomes the children of one parent node, nested by indentation.         *)
(***************************************************************************)
MaxLines == 4          \* lines of the content text

\* white space as String.prototype.trim and /\S/ see it
WhiteSpace == {" ", "\t", "\n"}

RECURSIVE TrimStart(_)
TrimStart(s) == IF s # <<>> /\ Head(s) \in WhiteSpace THEN TrimStart(Tail(s)) ELSE s

RECURSIVE TrimEnd(_)
TrimEnd(s) ==
    IF s # <<>> /\ s[Len(s)] \in WhiteSpace THEN TrimEnd(SubSeq(s, 1, Len(s) - 1)) ELSE s

Trim(s) == TrimEnd(TrimStart(s))

\* line.search(/\S/): the 0-based place of the first other character, or -1
Search(s) == IF TrimStart(s) = <<>> THEN -1 ELSE Len(s) - Len(TrimStart(s))

RECURSIVE Split(_)
\* content.split("\n")
Split(s) ==
    IF \E i \in 1..Len(s) : s[i] = "\n"
    THEN LET k == Min({i \in 1..Len(s) : s[i] = "\n"})
         IN  <<SubSeq(s, 1, k - 1)>> \o Split(SubSeq(s, k + 1, Len(s)))
    ELSE <<s>>

\* { indent, text } of one line
ParseLine(line) ==
    LET trimmed == TrimStart(line)
    IN  [indent |-> Search(line),
         text   |-> IF StartsWith(trimmed, <<"-">>) THEN Trim(Tail(trimmed)) ELSE trimmed]

RECURSIVE PopKeepEqual(_, _)
PopKeepEqual(stack, indent) ==
    IF stack # <<>> /\ stack[Len(stack)].indent > indent
    THEN PopKeepEqual(SubSeq(stack, 1, Len(stack) - 1), indent)
    ELSE stack

RECURSIVE Pop(_, _)
\* while (stack.length > 0 && stack[stack.length - 1].indent >= indent) stack.pop()
Pop(stack, indent) ==
    IF stack # <<>> /\ stack[Len(stack)].indent >= indent
    THEN Pop(SubSeq(stack, 1, Len(stack) - 1), indent)
    ELSE stack

\* one turn of the loop.  The nodes are kept in the order they are made;
\* children lists hold their numbers, in push order.
AddNode(b, p) ==
    LET n     == Len(b.nodes) + 1
        made  == Append(b.nodes, [name |-> p.text, children |-> <<>>])
        stack == Pop(b.stack, p.indent)
    IN  [nodes    |-> IF stack = <<>> THEN made
                      ELSE [made EXCEPT ![stack[Len(stack)].node].children = Append(@, n)],
         children |-> IF stack = <<>> THEN Append(b.children, n) ELSE b.children,
         stack    |-> Append(stack, [node |-> n, indent |-> p.indent])]

RECURSIVE BuildChildren(_)
BuildChildren(parsed) ==
    IF parsed = <<>> THEN [nodes |-> <<>>, children |-> <<>>, stack |-> <<>>]
    ELSE AddNode(BuildChildren(SubSeq(parsed, 1, Len(parsed) - 1)), parsed[Len(parsed)])

\* the parent node of the returned one-element array, with the nodes below it
BuildTanaJSON(name, content) ==
    IF Trim(content) = <<>> THEN [name |-> name, children |-> <<>>, nodes |-> <<>>]
    ELSE LET lines  == SelectSeq(Split(content), LAMBDA line : Trim(line) # <<>>)
             parsed == [i \in 1..Len(lines) |-> ParseLine(lines[i])]
             built  == BuildChildren(parsed)
         IN  [name |-> name, children |-> built.children, nodes |-> built.nodes]

LineChoices ==
    {<<>>,
     <<" ", "\t">>,
     <<"a">>,
     <<"-", " ", "b">>,
     <<" ", "-", " ", "a">>,
     <<"\t", "b", " ">>,
     <<" ", " ", "-", "a">>,
     <<"-", "-", "b">>,
     <<" ", " ", "b">>}

RECURSIVE Join(_)
\* the lines as one text, "\n" between them
Join(lines) ==
    IF lines = <<>> THEN <<>>
    ELSE IF Len(lines) = 1 THEN lines[1]
    ELSE lines[1] \o <<"\n">> \o Join(Tail(lines))

InitBuild ==
    /\ \E lines \in ListsUpTo(LineChoices, MaxLines) :
          call = [fn |-> "buildTanaJSON", name |-> <<"N">>, content |-> Join(lines)]
    /\ ret = NULL
    /\ CacheIdle
    /\ StorageIdle

BuildTanaJSONCall ==
    /\ call.fn = "buildTanaJSON"
    /\ ret = NULL
    /\ ret' = Some(BuildTanaJSON(call.name, call.content))
    /\ UNCHANGED <<cacheVars, storeVars, call>>

NextBuild == BuildTanaJSONCall

SpecBuild == InitBuild /\ [][NextBuild]_vars

(***************************************************************************)
(* Properties of buildTanaJSON, stated over the lines of the text          *)
(***************************************************************************)
Built == Val(ret)
InputLines == Split(call.content)
HasText(line) == \E i \in 1..Len(line) : line[i] \notin WhiteSpace

\* the non-blank lines, in input order
TextLines == SelectSeq(InputLines, HasText)

\* number of white-space characters in front of the first other character
Indentation(line) == Min({i \in 1..Len(line) : line[i] \notin WhiteSpace}) - 1
AfterIndentation(line) == SubSeq(line, Indentation(line) + 1, Len(line))

\* the line's text without one leading '-'
WithoutDash(line) ==
    IF AfterIndentation(line)[1] = "-" THEN Tail(AfterIndentation(line))
    ELSE AfterIndentation(line)

\* the lines before line k that are indented less than it
LessIndentedBefore(k) ==
    {j \in 1..(k - 1) : Indentation(TextLines[j]) < Indentation(TextLines[k])}

Max(S) == CHOOSE x \in S : \A y \in S : y <= x

\* the nearest of them, 0 when there is none
NearestLessIndented(k) ==
    IF LessIndentedBefore(k) = {} THEN 0 ELSE Max(LessIndentedBefore(k))

\* the lists a node is a child in: 0 stands for the parent node's own list
ChildIn(n) ==
    {m \in 1..Len(Built.nodes) : n \in Range(Built.nodes[m].children)}
        \cup (IF n \in Range(Built.children) THEN {0} ELSE {})

RECURSIVE PreOrder(_)
PreOrder(list) ==
    IF list = <<>> THEN <<>>
    ELSE <<list[1]>> \o PreOrder(Built.nodes[list[1]].children) \o PreOrder(Tail(list))

\* C23: every non-blank line of the children text yields exactly one node,
\* named by the line without its indentation and one leading '-'; the node
\* of a line is a child of the node of the nearest preceding line with
\* strictly smaller indentation, or of the top level when there is none; a
\* pre-order walk of the tree lists the lines in input order.
C23_TreeFollowsIndentation ==
    ret # NULL =>
        /\ Len(Built.nodes) = Len(TextLines)
        /\ \A k \in 1..Len(TextLines) :
              /\ Trim(Built.nodes[k].name) = Trim(WithoutDash(TextLines[k]))
              /\ ChildIn(k) = {NearestLessIndented(k)}
        /\ PreOrder(Built.children) = [k \in 1..Len(TextLines) |-> k]

\* a line nested under the first one and a line back at the top level, in a
\* text with a blank line, a tab and a line without '-'
C23_Witness ==
    /\ ret # NULL
    /\ Len(InputLines) = 4
    /\ Len(Built.nodes) = 3
    /\ Built.children = <<1, 3>>
    /\ Built.nodes[1].children = <<2>>
    /\ Indentation(TextLines[2]) = 1
    /\ Indentation(TextLines[3]) = 0
    /\ \E k \in 1..3 : TextLines[k][1] = "\t"
    /\ \E k \in 1..3 : WithoutDash(TextLines[k]) = AfterIndentation(TextLines[k])

(***************************************************************************)
(* Template expressions (template.ts, filters.ts): {{identifier|filter:arg}}*)
(* is the context value of the identifier passed through the filters from  *)
(* left to right.  Rendering either gives a value or fails.                *)
(***************************************************************************)
MaxFilters == 3        \* filters of one expression

Rendering(value) == [ok |-> TRUE, value |-> value]
UnknownFilter(name) == [ok |-> FALSE, value |-> name]

\* names of the filter registry that are modelled
DefaultFilters == {"lower", "strip", "truncate", "defaultValue"}

\* one registered filter applied to a value
ApplyFilter(f, value) ==
    CASE f.name = "lower"        -> ToLowerCase(value)
      [] f.name = "strip"        -> Trim(value)
      [] f.name = "truncate"     -> Slice(value, f.arg)
      [] f.name = "defaultValue" -> IF value = <<>> THEN <<"?">> ELSE value

RECURSIVE ApplyFiltersSkipUnknown(_, _)
ApplyFiltersSkipUnknown(value, filters) ==
    IF filters = <<>> THEN Rendering(value)
    ELSE IF filters[1].name \notin DefaultFilters
         THEN ApplyFiltersSkipUnknown(value, Tail(filters))
         ELSE ApplyFiltersSkipUnknown(ApplyFilter(filters[1], value), Tail(filters))

RECURSIVE ApplyFilters(_, _)
\* the filters from left to right; a name that is not registered is an error
ApplyFilters(value, filters) ==
    IF filters = <<>> THEN Rendering(value)
    ELSE IF filters[1].name \notin DefaultFilters THEN UnknownFilter(filters[1].name)
         ELSE ApplyFilters(ApplyFilter(filters[1], value), Tail(filters))

\* an identifier without a context value stands for the empty string
Lookup(context, identifier) ==
    IF MapHas(context, identifier) THEN Val(MapGet(context, identifier)) ELSE <<>>

RenderExpression(expression, context) ==
    ApplyFilters(Lookup(context, expression.identifier), expression.filters)

FilterChoices ==
    {[name |-> "lower", arg |-> 0], [name |-> "strip", arg |-> 0],
     [name |-> "truncate", arg |-> 2], [name |-> "defaultValue", arg |-> 0],
     [name |-> "lowr", arg |-> 0], [name |-> "shorten", arg |-> 2]}

TemplateContext == <<[key |-> "title", value |-> <<" ", "H", "e", "y">>]>>

InitRender ==
    /\ \E identifier \in {"title", "author"}, filters \in ListsUpTo(FilterChoices, MaxFilters) :
          call = [fn |-> "renderExpression",
                  expression |-> [identifier |-> identifier, filters |-> filters],
                  context |-> TemplateContext]
    /\ ret = NULL
    /\ CacheIdle
    /\ StorageIdle

RenderExpressionCall ==
    /\ call.fn = "renderExpression"
    /\ ret = NULL
    /\ ret' = Some(RenderExpression(call.expression, call.context))
    /\ UNCHANGED <<cacheVars, storeVars, call>>

NextRender == RenderExpressionCall

SpecRender == InitRender /\ [][NextRender]_vars

FilterNames == {call.expression.filters[i].name : i \in 1..Len(call.expression.filters)}

\* C21: rendering an expression that names a filter which is not in the
\* registry fails; it never gives a value, also when the unknown filter
\* follows registered filters in the pipeline.
C21_UnknownFilterFails ==
    (ret # NULL /\ FilterNames \ DefaultFilters # {}) => ~Val(ret).ok

\* an unknown filter behind two registered ones
C21_Witness ==
    /\ ret # NULL
    /\ Len(call.expression.filters) = 3
    /\ call.expression.filters[1].name = "strip"
    /\ call.expression.filters[2].name = "truncate"
    /\ call.expression.filters[3].name = "lowr"
    /\ call.expression.identifier = "title"
    /\ ~Val(ret).ok

(***************************************************************************)
(* Clip Web Page (clip-web.tsx): choice of the template for the page.      *)
(* The form matches the page's URL against the templates when the URL is   *)
(* set, lets the user pick a template or none, and on save takes the       *)
(* fields from the active template or, without one, from the page's        *)
(* metadata.  URLs are written as their domain and path.                   *)
(***************************************************************************)
RECURSIVE MatchesDomainPattern(_, _)
\* a trigger is a glob: '*' stands for any run of characters
MatchesDomainPattern(pattern, url) ==
    IF pattern = <<>> THEN url = <<>>
    ELSE IF Head(pattern) = "*"
         THEN \/ MatchesDomainPattern(Tail(pattern), url)
              \/ url # <<>> /\ MatchesDomainPattern(pattern, Tail(url))
         ELSE /\ url # <<>>
              /\ Head(url) = Head(pattern)
              /\ MatchesDomainPattern(Tail(pattern), Tail(url))

AnyTrigger(template, url) ==
    \E i \in 1..Len(template.triggers) : MatchesDomainPattern(template.triggers[i], url)

\* the first template of the list with a matching trigger, or null
FindMatchingTemplate(url, templates) ==
    IF \E i \in 1..Len(templates) : AnyTrigger(templates[i], url)
    THEN Some(templates[Min({i \in 1..Len(templates) : AnyTrigger(templates[i], url)})])
    ELSE NULL

ClipTemplate(id, triggers, fieldName) ==
    [id |-> id, triggers |-> triggers,
     fields |-> <<[key |-> fieldName, value |-> <<"{", "{", "u", "r", "l", "}", "}">>]>>]

builtinTemplates ==
    <<ClipTemplate("builtin:github-repo", <<<<"g", "/", "*", "/", "*">>>>, "URL"),
      ClipTemplate("builtin:youtube", <<<<"y", "/", "w", "*">>, <<"u", "/", "*">>>>, "Channel")>>

UserTemplateChoices ==
    {<<>>,
     <<ClipTemplate("user:mine", <<<<"*", ".", "m", "/", "*">>>>, "Source")>>,
     <<ClipTemplate("user:mine", <<<<"*", ".", "m", "/", "*">>>>, "Source"), ClipTemplate("user:git", <<<<"g", "/", "*">>>>, "Link")>>}

UrlChoices == {<<"g", "/", "a", "/", "b">>, <<"g", "/", "a">>, <<"u", "/", "x">>, <<"a", ".", "m", "/", "p">>, <<"n", "/", "q">>}

InitSelect ==
    /\ \E templates \in UserTemplateChoices :
          storage = [NoItems EXCEPT !.templates =
                        IF templates = <<>> THEN NULL ELSE Some(JSONStringify(templates))]
    /\ added = <<>>
    /\ command = NoCommand
    /\ call = NoArgs
    /\ ret = NULL
    /\ CacheIdle

\* setUrl(tab.url), and the effect that runs when url changes
SetUrl(url) ==
    LET matched == FindMatchingTemplate(url, builtinTemplates)
    IN  /\ ret = NULL
        /\ command.url = NULL
        /\ command' = [command EXCEPT
                          !.url = Some(url),
                          !.matchedTemplate = matched,
                          !.selectedTemplateId =
                              IF matched # NULL /\ command.selectedTemplateId = NULL
                              THEN Some(Val(matched).id) ELSE @]
        /\ UNCHANGED <<cacheVars, storage, added, call, ret>>

\* the template dropdown's onChange
OnChangeTemplate(value) ==
    /\ ret = NULL
    /\ command' = IF value = "none"
                  THEN [command EXCEPT !.selectedTemplateId = NULL, !.useTemplate = FALSE]
                  ELSE [command EXCEPT !.selectedTemplateId = Some(value), !.useTemplate = TRUE]
    /\ UNCHANGED <<cacheVars, storage, added, call, ret>>

\* useMemo: the selected template, else the matched one; null without useTemplate
ActiveTemplate(c) ==
    IF ~c.useTemplate THEN NULL
    ELSE IF c.selectedTemplateId # NULL
         THEN IF \E i \in 1..Len(builtinTemplates) :
                     builtinTemplates[i].id = Val(c.selectedTemplateId)
              THEN Some(builtinTemplates[Min({i \in 1..Len(builtinTemplates) :
                                 builtinTemplates[i].id = Val(c.selectedTemplateId)})])
              ELSE c.matchedTemplate
         ELSE c.matchedTemplate

\* { URL: url, ... } of handleSave, for a page without metadata
DefaultFields(url) == <<[key |-> "URL", value |-> url]>>

\* handleSave: the fields of the rendered template, or the default ones
HandleSave ==
    /\ ret = NULL
    /\ command.url # NULL
    /\ call' = [fn |-> "handleSave"]
    /\ ret' = Some([template |-> IF ActiveTemplate(command) = NULL THEN NULL
                                 ELSE Some(Val(ActiveTemplate(command)).id),
                    fields   |-> IF ActiveTemplate(command) = NULL
                                 THEN DefaultFields(Val(command.url))
                                 ELSE Val(ActiveTemplate(command)).fields])
    /\ UNCHANGED <<cacheVars, storeVars>>

NextSelect ==
    \/ \E url \in UrlChoices : SetUrl(url)
    \/ \E value \in {"none"} \cup {builtinTemplates[i].id : i \in 1..Len(builtinTemplates)} :
          OnChangeTemplate(value)
    \/ HandleSave

SpecSelect == InitSelect /\ [][NextSelect]_vars

\* the candidates in priority order: built-in templates, then the user's
Candidates == builtinTemplates \o GetTemplates(storage)
Triggered(url) == {i \in 1..Len(Candidates) : AnyTrigger(Candidates[i], url)}

\* C22: once the URL is known the selected template is the first candidate
\* (built-in templates before user-defined ones, list order within each)
\* with a trigger matching the URL; when no candidate's trigger matches no
\* template is selected and the saved fields are the default ones.
C22_FirstMatchingCandidate ==
    command.url # NULL =>
        /\ Triggered(Val(command.url)) # {} =>
              command.matchedTemplate = Some(Candidates[Min(Triggered(Val(command.url)))])
        /\ Triggered(Val(command.url)) = {} =>
              /\ command.matchedTemplate = NULL
              /\ (ret # NULL /\ command.selectedTemplateId = NULL) =>
                    /\ Val(ret).template = NULL
                    /\ Val(ret).fields = DefaultFields(Val(command.url))

====
